---- MODULE Spec2Model ----
(***************************************************************************)
(* Model of tailscaled's Local API server (package localapi): the Handler  *)
(* with its capability bits, ServeHTTP's password gate and dispatch, the   *)
(* per-path handlers, and the /dial connection hijack with its two copy    *)
(* goroutines.                                                             *)
(***************************************************************************)
EXTENDS Integers, Sequences, FiniteSets, TLC

(***************************************************************************)
(* Bounds of the model.                                                    *)
(***************************************************************************)
\* number of distinct non-zero preference values the backend can hold
MaxPrefs == 1
\* length of the byte stream the client sends after its request headers
MaxBytes == 3
\* largest number of bytes one Read of a copy loop returns
MaxChunk == 2
\* length of the byte stream the dialed remote peer sends
MaxDown == 1
\* largest maxWait given to WaitFor, in clock ticks
MaxWait == 2
\* largest number of calls WaitFor makes to try
MaxTries == 3

(***************************************************************************)
(* Program constants.                                                      *)
(***************************************************************************)
\* make(chan error): a channel without a buffer
ErrcUnbuffered == Len(<<>>)

\* errc := make(chan error, 1)
ErrcCap == 1
StatusOK == 200
StatusNoContent == 204
StatusSwitchingProtocols == 101
StatusBadRequest == 400
StatusUnauthorized == 401
StatusForbidden == 403
StatusNotFound == 404
StatusMethodNotAllowed == 405
StatusInternalServerError == 500
StatusBadGateway == 502
StatusServiceUnavailable == 503

upgradeProto == "ts-dial"

(***************************************************************************)
(* http.ResponseWriter as the handlers use it.  hdr is the mutable header  *)
(* map; sent is its snapshot when the status line went out.  A WriteHeader *)
(* after the first one is dropped by net/http ("superfluous"); a Write     *)
(* before any WriteHeader sends 200 first.                                 *)
(***************************************************************************)
NoHeaders == [version |-> FALSE, ctype |-> "", upgrade |-> "", connection |-> ""]

NewResponseWriter ==
  [wroteHeader |-> FALSE, status |-> 0, statusLines |-> <<>>, superfluous |-> 0,
   hdr |-> NoHeaders, sent |-> NoHeaders, body |-> <<>>, hijacked |-> FALSE]

WriteHeader(w, code) ==
  IF w.hijacked THEN w
  ELSE IF w.wroteHeader THEN [w EXCEPT !.superfluous = @ + 1]
  ELSE [w EXCEPT !.wroteHeader = TRUE, !.status = code,
                 !.statusLines = Append(@, code), !.sent = w.hdr]

Write(w, text, val) ==
  IF w.hijacked THEN w
  ELSE LET w1 == IF w.wroteHeader THEN w ELSE WriteHeader(w, StatusOK)
       IN [w1 EXCEPT !.body = Append(@, [text |-> text, val |-> val])]

SetHeader(w, k, v) == [w EXCEPT !.hdr[k] = v]

\* http.Error(w, msg, code)
HttpError(w, msg, code) ==
  Write(WriteHeader(SetHeader(w, "ctype", "text/plain"), code), msg, 0)

\* the server finishes a request whose handler returned: a handler that
\* wrote nothing gets an implicit 200; a hijacked connection is left alone
FinishRequest(w) ==
  IF w.hijacked \/ w.wroteHeader THEN w ELSE WriteHeader(w, StatusOK)

(***************************************************************************)
(* The state a handler threads through: the response writer, the backend   *)
(* methods called so far, the backend's preferences, the log lines         *)
(* written, and the resources currently open.                              *)
(***************************************************************************)
Reply(st, msg, code) == [st EXCEPT !.w = HttpError(st.w, msg, code)]

Call(st, method) == [st EXCEPT !.calls = Append(@, method)]

Logf(st, msg) == [st EXCEPT !.logs = Append(@, msg)]

JSON(st, text, val) ==
  [st EXCEPT !.w = Write(SetHeader(st.w, "ctype", "application/json"), text, val)]

Text(st, text) ==
  [st EXCEPT !.w = Write(SetHeader(st.w, "ctype", "text/plain"), text, 0)]

writeErrorJSON(st, err) ==
  [st EXCEPT !.w = Write(WriteHeader(SetHeader(st.w, "ctype", "application/json"),
                                     StatusInternalServerError), err, 0)]

Open(st, res) == [st EXCEPT !.open = @ \cup {res}]

Close(st, res) == [st EXCEPT !.open = @ \ {res}]

NewState(prefs0, metrics0) ==
  [w |-> NewResponseWriter, calls |-> <<>>, prefs |-> prefs0, logs |-> <<>>,
   open |-> {}, handler |-> "", pipe |-> FALSE, drain |-> FALSE,
   metrics |-> metrics0]

(***************************************************************************)
(* Parsers and small helpers, by what they do on the values the model      *)
(* draws requests from.                                                    *)
(***************************************************************************)
\* strings.TrimSpace
TrimSpace(s) == IF s = " " THEN "" ELSE s

\* netip.ParseAddrPort, netip.ParseAddr, strconv.ParseInt, url.PathUnescape
ParseAddrPortOK(s) == s = "100.64.0.1:80"
ParseAddrOK(s) == s = "100.64.0.1"
ParseIntOK(s) == s = "100"
PathUnescapeOK(s) == s # "%zz"

\* strings.Cut(upath, "/") on the file-put suffixes of the model
CutOK(s) == s = "n1/f"

defBool(a, def) ==
  IF a = "" THEN def
  ELSE IF a = "true" THEN TRUE
  ELSE IF a = "false" THEN FALSE
  ELSE def

(***************************************************************************)
(* The node backend as the handlers see it (ipnlocal.LocalBackend).        *)
(***************************************************************************)
\* EditPrefs is atomic: a patch that fails validation leaves the prefs alone
BackendEditPrefs(prefs, mp, fails) == IF fails THEN prefs ELSE mp

(***************************************************************************)
(* The handlers.  h is the Handler, r the request, e the outcomes of the   *)
(* backend and of the transport during this request, st the handler state. *)
(***************************************************************************)
\* serveIDToken answering a failed upstream status with its own 500
serveIDToken_OwnStatus(h, r, e, st) ==
  IF ~h.PermitWrite THEN Reply(st, "id-token access denied", StatusForbidden)
  ELSE LET s1 == Call(st, "NetMap") IN
    IF ~e.netmap THEN Reply(s1, "no netmap", StatusServiceUnavailable)
    ELSE IF TrimSpace(r.form.aud) = "" THEN Reply(s1, "no audience requested", StatusBadRequest)
    ELSE LET s2 == Call(s1, "DoNoiseRequest") IN
      IF e.berr \/ e.upStatus # StatusOK
        THEN Reply(s2, "noise error", StatusInternalServerError)
      ELSE LET s3 == [Open(s2, "respBody") EXCEPT !.w = WriteHeader(@, e.upStatus)]
               s4 == IF e.copyErr THEN Reply(s3, "copy error", StatusInternalServerError)
                     ELSE [s3 EXCEPT !.w = Write(@, "upstream body", e.upStatus)]
           IN Close(s4, "respBody")

serveIDToken(h, r, e, st) ==
  IF ~h.PermitWrite THEN Reply(st, "id-token access denied", StatusForbidden)
  ELSE LET s1 == Call(st, "NetMap") IN
    IF ~e.netmap THEN Reply(s1, "no netmap", StatusServiceUnavailable)
    ELSE IF TrimSpace(r.form.aud) = ""
      THEN Reply(s1, "no audience requested", StatusBadRequest)
    ELSE LET s2 == Call(s1, "DoNoiseRequest") IN
      IF e.berr THEN Reply(s2, "noise error", StatusInternalServerError)
      ELSE LET s3 == [Open(s2, "respBody") EXCEPT !.w = WriteHeader(@, e.upStatus)]
               s4 == IF e.copyErr
                       THEN Reply(s3, "copy error", StatusInternalServerError)
                       ELSE [s3 EXCEPT !.w = Write(@, "upstream body", e.upStatus)]
           IN Close(s4, "respBody")

serveBugReport(h, r, e, st) ==
  IF ~h.PermitRead THEN Reply(st, "bugreport access denied", StatusForbidden)
  ELSE LET s1 == Logf(st, "user bugreport")
           s2 == IF r.form.note # "" THEN Logf(s1, "user bugreport note") ELSE s1
       IN Text(s2, "logMarker")

serveWhoIs(h, r, e, st) ==
  IF ~h.PermitRead THEN Reply(st, "whois access denied", StatusForbidden)
  ELSE IF r.form.addr = "" THEN Reply(st, "missing 'addr' parameter", StatusBadRequest)
  ELSE IF ~ParseAddrPortOK(r.form.addr)
    THEN Reply(st, "invalid 'addr' parameter", StatusBadRequest)
  ELSE LET s1 == Call(st, "WhoIs") IN
    IF ~e.found THEN Reply(s1, "no match for IP:port", StatusNotFound)
    ELSE JSON(Call(s1, "PeerCaps"), "whois", 0)

serveGoroutines(h, r, e, st) ==
  IF ~h.PermitWrite THEN Reply(st, "goroutine dump access denied", StatusForbidden)
  ELSE Text(st, "stacks")

serveMetrics(h, r, e, st) ==
  IF ~h.PermitWrite THEN Reply(st, "metric access denied", StatusForbidden)
  ELSE Text(st, "metrics")

serveDebug(h, r, e, st) ==
  IF ~h.PermitWrite THEN Reply(st, "debug access denied", StatusForbidden)
  ELSE IF r.method # "POST" THEN Reply(st, "POST required", StatusMethodNotAllowed)
  ELSE IF r.form.action = "rebind" THEN
    LET s1 == Call(st, "DebugRebind") IN
      IF e.berr THEN Reply(s1, "backend error", StatusBadRequest) ELSE Text(s1, "done")
  ELSE IF r.form.action = "restun" THEN
    LET s1 == Call(st, "DebugReSTUN") IN
      IF e.berr THEN Reply(s1, "backend error", StatusBadRequest) ELSE Text(s1, "done")
  ELSE IF r.form.action = "" THEN Reply(st, "missing parameter 'action'", StatusBadRequest)
  ELSE Reply(st, "unknown action", StatusBadRequest)

\* the linked-in profile handler; absent on platforms that do not link it
serveProfileFunc(r, st) == Text(st, "profile")

serveProfile(h, r, e, st) ==
  IF ~h.PermitWrite THEN Reply(st, "profile access denied", StatusForbidden)
  ELSE IF ~e.profile
    THEN Reply(st, "not implemented on this platform", StatusServiceUnavailable)
  ELSE serveProfileFunc(r, st)

serveCheckIPForwarding(h, r, e, st) ==
  IF ~h.PermitRead THEN Reply(st, "IP forwarding check access denied", StatusForbidden)
  ELSE JSON(Call(st, "CheckIPForwarding"), IF e.berr THEN "warning" ELSE "", 0)

serveStatus(h, r, e, st) ==
  IF ~h.PermitRead THEN Reply(st, "status access denied", StatusForbidden)
  ELSE LET s1 == [st EXCEPT !.w = SetHeader(@, "ctype", "application/json")] IN
    IF defBool(r.form.peers, TRUE)
      THEN JSON(Call(s1, "Status"), "status", 1)
      ELSE JSON(Call(s1, "StatusWithoutPeers"), "status", 0)

serveLoginInteractive(h, r, e, st) ==
  IF ~h.PermitWrite THEN Reply(st, "login access denied", StatusForbidden)
  ELSE IF r.method # "POST" THEN Reply(st, "want POST", StatusBadRequest)
  ELSE [Call(st, "StartLoginInteractive") EXCEPT !.w = WriteHeader(@, StatusNoContent)]

\* serveLogout without its check of the method
serveLogout_AnyMethod(h, r, e, st) ==
  IF ~h.PermitWrite THEN Reply(st, "logout access denied", StatusForbidden)
  ELSE LET s1 == Call(st, "LogoutSync") IN
    IF ~e.berr THEN [s1 EXCEPT !.w = WriteHeader(@, StatusNoContent)]
    ELSE Reply(s1, "backend error", StatusInternalServerError)

serveLogout(h, r, e, st) ==
  IF ~h.PermitWrite THEN Reply(st, "logout access denied", StatusForbidden)
  ELSE IF r.method # "POST" THEN Reply(st, "want POST", StatusBadRequest)
  ELSE LET s1 == Call(st, "LogoutSync") IN
    IF ~e.berr THEN [s1 EXCEPT !.w = WriteHeader(@, StatusNoContent)]
    ELSE Reply(s1, "backend error", StatusInternalServerError)

\* servePrefs applying the patch before it checks PermitWrite
servePrefs_EditFirst(h, r, e, st) ==
  IF ~h.PermitRead THEN Reply(st, "prefs access denied", StatusForbidden)
  ELSE IF r.method = "PATCH" THEN
    IF r.body = "bad" THEN Reply(st, "json decode error", StatusBadRequest)
    ELSE LET s1 == [Call(st, "EditPrefs") EXCEPT
                      !.prefs = BackendEditPrefs(@, r.mp, e.berr)] IN
      IF ~h.PermitWrite THEN Reply(s1, "prefs write access denied", StatusForbidden)
      ELSE IF e.berr
        THEN [s1 EXCEPT !.w = Write(WriteHeader(SetHeader(@, "ctype", "application/json"),
                                                StatusBadRequest), "Error", 0)]
        ELSE JSON(s1, "prefs", s1.prefs)
  ELSE IF r.method \in {"GET", "HEAD"} THEN
    LET s1 == Call(st, "Prefs") IN JSON(s1, "prefs", s1.prefs)
  ELSE Reply(st, "unsupported method", StatusMethodNotAllowed)

servePrefs(h, r, e, st) ==
  IF ~h.PermitRead THEN Reply(st, "prefs access denied", StatusForbidden)
  ELSE IF r.method = "PATCH" THEN
    IF ~h.PermitWrite THEN Reply(st, "prefs write access denied", StatusForbidden)
    ELSE IF r.body = "bad" THEN Reply(st, "json decode error", StatusBadRequest)
    ELSE LET s1 == [Call(st, "EditPrefs") EXCEPT
                      !.prefs = BackendEditPrefs(@, r.mp, e.berr)] IN
      IF e.berr
        THEN [s1 EXCEPT !.w = Write(WriteHeader(SetHeader(@, "ctype", "application/json"),
                                                StatusBadRequest), "Error", 0)]
        ELSE JSON(s1, "prefs", s1.prefs)
  ELSE IF r.method \in {"GET", "HEAD"} THEN
    LET s1 == Call(st, "Prefs") IN JSON(s1, "prefs", s1.prefs)
  ELSE Reply(st, "unsupported method", StatusMethodNotAllowed)

serveCheckPrefs(h, r, e, st) ==
  IF ~h.PermitWrite THEN Reply(st, "checkprefs access denied", StatusForbidden)
  ELSE IF r.method # "POST" THEN Reply(st, "unsupported method", StatusMethodNotAllowed)
  ELSE IF r.body = "bad" THEN Reply(st, "invalid JSON body", StatusBadRequest)
  ELSE JSON(Call(st, "CheckPrefs"), IF e.berr THEN "Error" ELSE "", 0)

\* serveFiles without the deferred rc.Close
serveFiles_NoClose(h, r, e, st) ==
  IF ~h.PermitWrite THEN Reply(st, "file access denied", StatusForbidden)
  ELSE IF r.suffix = "" THEN
    IF r.method # "GET" THEN Reply(st, "want GET to list files", StatusBadRequest)
    ELSE LET s1 == Call(st, "WaitingFiles") IN
      IF e.berr THEN Reply(s1, "backend error", StatusInternalServerError)
      ELSE JSON(s1, "waiting files", 0)
  ELSE IF ~PathUnescapeOK(r.suffix) THEN Reply(st, "bad filename", StatusBadRequest)
  ELSE IF r.method = "DELETE" THEN
    LET s1 == Call(st, "DeleteFile") IN
      IF e.berr THEN Reply(s1, "backend error", StatusInternalServerError)
      ELSE [s1 EXCEPT !.w = WriteHeader(@, StatusNoContent)]
  ELSE LET s1 == Call(st, "OpenFile") IN
    IF e.berr THEN Reply(s1, "backend error", StatusInternalServerError)
    ELSE LET s2 == Open(s1, "rc")
         IN IF e.size = 0 THEN s2 ELSE [s2 EXCEPT !.w = Write(@, "file", e.size)]

serveFiles(h, r, e, st) ==
  IF ~h.PermitWrite THEN Reply(st, "file access denied", StatusForbidden)
  ELSE IF r.suffix = "" THEN
    IF r.method # "GET" THEN Reply(st, "want GET to list files", StatusBadRequest)
    ELSE LET s1 == Call(st, "WaitingFiles") IN
      IF e.berr THEN Reply(s1, "backend error", StatusInternalServerError)
      ELSE JSON(s1, "waiting files", 0)
  ELSE IF ~PathUnescapeOK(r.suffix) THEN Reply(st, "bad filename", StatusBadRequest)
  ELSE IF r.method = "DELETE" THEN
    LET s1 == Call(st, "DeleteFile") IN
      IF e.berr THEN Reply(s1, "backend error", StatusInternalServerError)
      ELSE [s1 EXCEPT !.w = WriteHeader(@, StatusNoContent)]
  ELSE LET s1 == Call(st, "OpenFile") IN
    IF e.berr THEN Reply(s1, "backend error", StatusInternalServerError)
    ELSE LET s2 == Open(s1, "rc")
             \* io.Copy(w, rc) writes nothing for an empty file
             s3 == IF e.size = 0 THEN s2
                   ELSE [s2 EXCEPT !.w = Write(@, "file", e.size)]
         IN Close(s3, "rc")

serveFileTargets(h, r, e, st) ==
  IF ~h.PermitRead THEN Reply(st, "access denied", StatusForbidden)
  ELSE IF r.method # "GET" THEN Reply(st, "want GET to list targets", StatusBadRequest)
  ELSE LET s1 == Call(st, "FileTargets") IN
    IF e.berr THEN writeErrorJSON(s1, "backend error")
    ELSE JSON(s1, "file targets", 0)

\* rp.ServeHTTP(w, outReq): the reverse proxy relays the peer's reply, or
\* answers 502 itself when the peer API transport fails
ReverseProxy(e, st) ==
  LET s1 == Call(st, "PeerAPITransport") IN
    IF e.copyErr THEN [s1 EXCEPT !.w = WriteHeader(@, StatusBadGateway)]
    ELSE [s1 EXCEPT !.w = Write(WriteHeader(@, e.upStatus), "peer reply", 0)]

serveFilePut(h, r, e, st) ==
  IF ~h.PermitWrite THEN Reply(st, "file access denied", StatusForbidden)
  ELSE IF r.method # "PUT" THEN Reply(st, "want PUT to put file", StatusBadRequest)
  ELSE LET s1 == Call(st, "FileTargets") IN
    IF e.berr THEN Reply(s1, "backend error", StatusInternalServerError)
    ELSE IF ~CutOK(r.suffix) THEN Reply(s1, "bogus URL", StatusBadRequest)
    ELSE IF ~e.found THEN Reply(s1, "node not found", StatusNotFound)
    ELSE IF ~e.urlOK THEN Reply(s1, "bogus peer URL", StatusInternalServerError)
    ELSE ReverseProxy(e, s1)

\* serveSetDNS without its PermitWrite check
serveSetDNS_NoGate(h, r, e, st) ==
  IF r.method # "POST" THEN Reply(st, "want POST", StatusBadRequest)
  ELSE LET s1 == Call(st, "SetDNS") IN
    IF e.berr THEN writeErrorJSON(s1, "backend error")
    ELSE JSON(s1, "{}", 0)

serveSetDNS(h, r, e, st) ==
  IF ~h.PermitWrite THEN Reply(st, "access denied", StatusForbidden)
  ELSE IF r.method # "POST" THEN Reply(st, "want POST", StatusBadRequest)
  ELSE LET s1 == Call(st, "SetDNS") IN
    IF e.berr THEN writeErrorJSON(s1, "backend error")
    ELSE JSON(s1, "{}", 0)

serveDERPMap(h, r, e, st) ==
  IF r.method # "GET" THEN Reply(st, "want GET", StatusBadRequest)
  ELSE JSON(Call(st, "DERPMap"), "derpmap", 0)

\* serveSetExpirySooner asking for PermitWrite first
serveSetExpirySooner_WriteGated(h, r, e, st) ==
  IF ~h.PermitWrite THEN Reply(st, "access denied", StatusForbidden)
  ELSE IF r.method # "POST" THEN Reply(st, "POST required", StatusMethodNotAllowed)
  ELSE IF r.form.expiry = ""
    THEN Reply(st, "missing 'expiry' parameter, a unix timestamp", StatusBadRequest)
  ELSE IF ~ParseIntOK(r.form.expiry)
    THEN Reply(st, "can't parse expiry time, expects a unix timestamp", StatusBadRequest)
  ELSE LET s1 == Call(st, "SetExpirySooner") IN
    IF e.berr THEN Reply(s1, "backend error", StatusBadRequest)
    ELSE Text(s1, "done")

serveSetExpirySooner(h, r, e, st) ==
  IF r.method # "POST" THEN Reply(st, "POST required", StatusMethodNotAllowed)
  ELSE IF r.form.expiry = ""
    THEN Reply(st, "missing 'expiry' parameter, a unix timestamp", StatusBadRequest)
  ELSE IF ~ParseIntOK(r.form.expiry)
    THEN Reply(st, "can't parse expiry time, expects a unix timestamp", StatusBadRequest)
  ELSE LET s1 == Call(st, "SetExpirySooner") IN
    IF e.berr THEN Reply(s1, "backend error", StatusBadRequest)
    ELSE Text(s1, "done")

\* servePing dropping the error of Ping
servePing_SwallowError(h, r, e, st) ==
  IF r.method # "POST" THEN Reply(st, "want POST", StatusBadRequest)
  ELSE IF r.form.ip = "" THEN Reply(st, "missing 'ip' parameter", StatusBadRequest)
  ELSE IF ~ParseAddrOK(r.form.ip) THEN Reply(st, "invalid IP", StatusBadRequest)
  ELSE IF r.form.ip = "" THEN Reply(st, "missing 'type' parameter", StatusBadRequest)
  ELSE JSON(Call(st, "Ping"), "ping result", 0)

servePing(h, r, e, st) ==
  IF r.method # "POST" THEN Reply(st, "want POST", StatusBadRequest)
  ELSE IF r.form.ip = "" THEN Reply(st, "missing 'ip' parameter", StatusBadRequest)
  ELSE IF ~ParseAddrOK(r.form.ip) THEN Reply(st, "invalid IP", StatusBadRequest)
  \* the code tests ipStr again here, not pingTypeStr
  ELSE IF r.form.ip = "" THEN Reply(st, "missing 'type' parameter", StatusBadRequest)
  ELSE LET s1 == Call(st, "Ping") IN
    IF e.berr THEN writeErrorJSON(s1, "backend error")
    ELSE JSON(s1, "ping result", 0)

\* strings.Contains(r.Header.Get("Connection"), "upgrade")
ContainsUpgrade(s) == s \in {"upgrade", "keep-alive, upgrade"}

\* serveDialHijack hijacking without having written the 101
serveDialHijack_No101(e, st) ==
  IF e.hijackErr
    THEN Close(Logf(st, "localapi dial Hijack error"), "outConn")
  ELSE LET s2 == Open([st EXCEPT !.w.hijacked = TRUE], "reqConn") IN
    IF e.flushErr THEN Close(Close(s2, "reqConn"), "outConn")
    ELSE [s2 EXCEPT !.drain = TRUE, !.pipe = TRUE]

\* serveDialHijack copying from the raw hijacked connection, not from the
\* drainBufConn
serveDialHijack_NoDrain(e, st) ==
  LET s1 == [st EXCEPT !.w = WriteHeader(SetHeader(SetHeader(@, "upgrade", upgradeProto),
                                                   "connection", "upgrade"),
                                         StatusSwitchingProtocols)] IN
    IF e.hijackErr
      THEN Close(Logf(s1, "localapi dial Hijack error"), "outConn")
    ELSE LET s2 == Open([s1 EXCEPT !.w.hijacked = TRUE], "reqConn") IN
      IF e.flushErr THEN Close(Close(s2, "reqConn"), "outConn")
      ELSE [s2 EXCEPT !.pipe = TRUE]

\* serveDialHijack logging a failed flush
serveDialHijack_LogFlush(e, st) ==
  LET s1 == [st EXCEPT !.w = WriteHeader(SetHeader(SetHeader(@, "upgrade", upgradeProto),
                                                   "connection", "upgrade"),
                                         StatusSwitchingProtocols)] IN
    IF e.hijackErr
      THEN Close(Logf(s1, "localapi dial Hijack error"), "outConn")
    ELSE LET s2 == Open([s1 EXCEPT !.w.hijacked = TRUE], "reqConn") IN
      IF e.flushErr
        THEN Close(Close(Logf(s2, "localapi dial flush error"), "reqConn"), "outConn")
      ELSE [s2 EXCEPT !.drain = TRUE, !.pipe = TRUE]

\* serveDial from the 101 on: the dial has succeeded and outConn is open
serveDialHijack(e, st) ==
  LET s1 == [st EXCEPT !.w = WriteHeader(SetHeader(SetHeader(@, "upgrade", upgradeProto),
                                                   "connection", "upgrade"),
                                         StatusSwitchingProtocols)] IN
    IF e.hijackErr
      THEN Close(Logf(s1, "localapi dial Hijack error"), "outConn")
    ELSE LET s2 == Open([s1 EXCEPT !.w.hijacked = TRUE], "reqConn") IN
      IF e.flushErr THEN Close(Close(s2, "reqConn"), "outConn")
      \* reqConn = netutil.NewDrainBufConn(reqConn, brw.Reader); go ...; go ...
      ELSE [s2 EXCEPT !.drain = TRUE, !.pipe = TRUE]

\* serveDial answering 101 before it dials
serveDial_EarlyUpgrade(h, r, e, st) ==
  IF r.method # "POST" THEN Reply(st, "POST required", StatusMethodNotAllowed)
  ELSE IF ~ContainsUpgrade(r.hdr.connection) \/ r.hdr.upgrade # upgradeProto
    THEN Reply(st, "bad ts-dial upgrade", StatusBadRequest)
  ELSE IF r.hdr.dialHost = "" \/ r.hdr.dialPort = ""
    THEN Reply(st, "missing Dial-Host or Dial-Port header", StatusBadRequest)
  ELSE IF ~e.hijacker THEN Reply(st, "make request over HTTP/1", StatusBadRequest)
  ELSE LET s0 == [st EXCEPT !.w = WriteHeader(@, StatusSwitchingProtocols)]
           s1 == Call(s0, "UserDial") IN
    IF e.berr THEN Reply(s1, "dial failure", StatusBadGateway)
    ELSE serveDialHijack(e, Open(s1, "outConn"))

\* serveDial wanting PUT instead of POST
serveDial_WantPUT(h, r, e, st) ==
  IF r.method # "PUT" THEN Reply(st, "PUT required", StatusMethodNotAllowed)
  ELSE IF ~ContainsUpgrade(r.hdr.connection) \/ r.hdr.upgrade # upgradeProto
    THEN Reply(st, "bad ts-dial upgrade", StatusBadRequest)
  ELSE IF r.hdr.dialHost = "" \/ r.hdr.dialPort = ""
    THEN Reply(st, "missing Dial-Host or Dial-Port header", StatusBadRequest)
  ELSE IF ~e.hijacker THEN Reply(st, "make request over HTTP/1", StatusBadRequest)
  ELSE LET s1 == Call(st, "UserDial") IN
    IF e.berr THEN Reply(s1, "dial failure", StatusBadGateway)
    ELSE serveDialHijack(e, Open(s1, "outConn"))

serveDial(h, r, e, st) ==
  IF r.method # "POST" THEN Reply(st, "POST required", StatusMethodNotAllowed)
  ELSE IF ~ContainsUpgrade(r.hdr.connection) \/ r.hdr.upgrade # upgradeProto
    THEN Reply(st, "bad ts-dial upgrade", StatusBadRequest)
  ELSE IF r.hdr.dialHost = "" \/ r.hdr.dialPort = ""
    THEN Reply(st, "missing Dial-Host or Dial-Port header", StatusBadRequest)
  ELSE IF ~e.hijacker THEN Reply(st, "make request over HTTP/1", StatusBadRequest)
  ELSE LET s1 == Call(st, "UserDial") IN
    IF e.berr THEN Reply(s1, "dial failure", StatusBadGateway)
    ELSE serveDialHijack(e, Open(s1, "outConn"))

(***************************************************************************)
(* Client metrics.  st.metrics maps a name to its registration: reg is     *)
(* "none", "code" (published by the daemon's own code) or "upload" (held   *)
(* in localapi's metrics table, created by an earlier upload).             *)
(***************************************************************************)
\* clientmetric.HasPublished
HasPublished(ms, name) == ms[name].reg # "none"

\* clientmetric.NewCounter / NewGauge followed by metrics[m.Name] = metric
NewMetric(ms, name, kind) ==
  [ms EXCEPT ![name] = [reg |-> "upload", kind |-> kind, value |-> 0]]

\* metric.Add
MetricAdd(ms, name, v) == [ms EXCEPT ![name].value = @ + v]

\* the loop registering a new name without asking HasPublished
RECURSIVE uploadLoop_NoPublishedCheck(_, _, _)
uploadLoop_NoPublishedCheck(ms, i, st) ==
  IF i > Len(ms) THEN JSON(st, "{}", 0)
  ELSE LET m == ms[i] IN
    IF st.metrics[m.name].reg = "upload"
      THEN uploadLoop_NoPublishedCheck(ms, i + 1,
             [st EXCEPT !.metrics = MetricAdd(@, m.name, m.value)])
    ELSE IF m.type \in {"counter", "gauge"}
      THEN uploadLoop_NoPublishedCheck(ms, i + 1,
             [st EXCEPT !.metrics = MetricAdd(NewMetric(@, m.name, m.type), m.name, m.value)])
    ELSE Reply(st, "Unknown metric type", StatusBadRequest)

RECURSIVE uploadLoop(_, _, _)
uploadLoop(ms, i, st) ==
  IF i > Len(ms) THEN JSON(st, "{}", 0)
  ELSE LET m == ms[i] IN
    IF st.metrics[m.name].reg = "upload"
      THEN uploadLoop(ms, i + 1, [st EXCEPT !.metrics = MetricAdd(@, m.name, m.value)])
    ELSE IF HasPublished(st.metrics, m.name)
      THEN Reply(st, "Already have a metric named", StatusBadRequest)
    ELSE IF m.type \in {"counter", "gauge"}
      THEN uploadLoop(ms, i + 1,
             [st EXCEPT !.metrics = MetricAdd(NewMetric(@, m.name, m.type),
                                              m.name, m.value)])
    ELSE Reply(st, "Unknown metric type", StatusBadRequest)

serveUploadClientMetrics(h, r, e, st) ==
  IF r.method # "POST" THEN Reply(st, "unsupported method", StatusMethodNotAllowed)
  ELSE IF r.body = "bad" THEN Reply(st, "invalid JSON body", StatusBadRequest)
  ELSE uploadLoop(r.clientMetrics, 1, st)

\* the certificate-fetch paths need write or cert access
serveCert(h, r, e, st) ==
  IF ~h.PermitWrite /\ ~h.PermitCert THEN Reply(st, "cert access denied", StatusForbidden)
  ELSE IF e.berr THEN Reply(Call(st, "GetCertPEM"), "backend error", StatusInternalServerError)
  ELSE Text(Call(st, "GetCertPEM"), "cert")

(***************************************************************************)
(* ServeHTTP: the nil-backend check, the version header, the password      *)
(* gate and the dispatch on the path.                                      *)
(***************************************************************************)
Dispatch(h, r, e, st, name) ==
  LET s == [st EXCEPT !.handler = name] IN
  CASE name = "serveFiles" -> serveFiles(h, r, e, s)
    [] name = "serveFilePut" -> serveFilePut(h, r, e, s)
    [] name = "serveCert" -> serveCert(h, r, e, s)
    [] name = "serveWhoIs" -> serveWhoIs(h, r, e, s)
    [] name = "serveGoroutines" -> serveGoroutines(h, r, e, s)
    [] name = "serveProfile" -> serveProfile(h, r, e, s)
    [] name = "serveStatus" -> serveStatus(h, r, e, s)
    [] name = "serveLogout" -> serveLogout(h, r, e, s)
    [] name = "serveLoginInteractive" -> serveLoginInteractive(h, r, e, s)
    [] name = "servePrefs" -> servePrefs(h, r, e, s)
    [] name = "servePing" -> servePing(h, r, e, s)
    [] name = "serveCheckPrefs" -> serveCheckPrefs(h, r, e, s)
    [] name = "serveCheckIPForwarding" -> serveCheckIPForwarding(h, r, e, s)
    [] name = "serveBugReport" -> serveBugReport(h, r, e, s)
    [] name = "serveFileTargets" -> serveFileTargets(h, r, e, s)
    [] name = "serveSetDNS" -> serveSetDNS(h, r, e, s)
    [] name = "serveDERPMap" -> serveDERPMap(h, r, e, s)
    [] name = "serveMetrics" -> serveMetrics(h, r, e, s)
    [] name = "serveDebug" -> serveDebug(h, r, e, s)
    [] name = "serveSetExpirySooner" -> serveSetExpirySooner(h, r, e, s)
    [] name = "serveDial" -> serveDial(h, r, e, s)
    [] name = "serveIDToken" -> serveIDToken(h, r, e, s)
    [] name = "serveUploadClientMetrics" -> serveUploadClientMetrics(h, r, e, s)

\* the switch on r.URL.Path: the handler of each exact path
Route ==
  { <<"/localapi/v0/whois", "serveWhoIs">>,
    <<"/localapi/v0/goroutines", "serveGoroutines">>,
    <<"/localapi/v0/profile", "serveProfile">>,
    <<"/localapi/v0/status", "serveStatus">>,
    <<"/localapi/v0/logout", "serveLogout">>,
    <<"/localapi/v0/login-interactive", "serveLoginInteractive">>,
    <<"/localapi/v0/prefs", "servePrefs">>,
    <<"/localapi/v0/ping", "servePing">>,
    <<"/localapi/v0/check-prefs", "serveCheckPrefs">>,
    <<"/localapi/v0/check-ip-forwarding", "serveCheckIPForwarding">>,
    <<"/localapi/v0/bugreport", "serveBugReport">>,
    <<"/localapi/v0/file-targets", "serveFileTargets">>,
    <<"/localapi/v0/set-dns", "serveSetDNS">>,
    <<"/localapi/v0/derpmap", "serveDERPMap">>,
    <<"/localapi/v0/metrics", "serveMetrics">>,
    <<"/localapi/v0/debug", "serveDebug">>,
    <<"/localapi/v0/set-expiry-sooner", "serveSetExpirySooner">>,
    <<"/localapi/v0/dial", "serveDial">>,
    <<"/localapi/v0/id-token", "serveIDToken">>,
    <<"/localapi/v0/upload-client-metrics", "serveUploadClientMetrics">> }

ExactPaths == { p[1] : p \in Route }

HandlerOf(path) == (CHOOSE p \in Route : p[1] = path)[2]

\* ServeHTTP checking the password only of requests that carry credentials
ServeHTTP_OptionalAuth(h, r, e, st) ==
  IF ~h.b THEN Reply(st, "server has no local backend", StatusInternalServerError)
  ELSE LET s1 == [st EXCEPT !.w = SetHeader(@, "version", TRUE)] IN
    IF h.RequiredPassword # "" /\ r.auth.ok /\ r.auth.pass # h.RequiredPassword
      THEN Reply(s1, "bad password", StatusForbidden)
    ELSE IF r.path = "/localapi/v0/files/" THEN Dispatch(h, r, e, s1, "serveFiles")
    ELSE IF r.path = "/localapi/v0/file-put/" THEN Dispatch(h, r, e, s1, "serveFilePut")
    ELSE IF r.path = "/localapi/v0/cert/" THEN Dispatch(h, r, e, s1, "serveCert")
    ELSE IF r.path \in ExactPaths THEN Dispatch(h, r, e, s1, HandlerOf(r.path))
    ELSE IF r.path = "/" THEN [s1 EXCEPT !.w = Write(@, "tailscaled", 0)]
    ELSE Reply(s1, "404 not found", StatusNotFound)

\* r.path is the matched prefix for the three prefix families (r.suffix is
\* the rest of the path) and the whole path otherwise
ServeHTTP(h, r, e, st) ==
  IF ~h.b THEN Reply(st, "server has no local backend", StatusInternalServerError)
  ELSE LET s1 == [st EXCEPT !.w = SetHeader(@, "version", TRUE)] IN
    IF h.RequiredPassword # "" /\ ~r.auth.ok
      THEN Reply(s1, "auth required", StatusUnauthorized)
    ELSE IF h.RequiredPassword # "" /\ r.auth.pass # h.RequiredPassword
      THEN Reply(s1, "bad password", StatusForbidden)
    ELSE IF r.path = "/localapi/v0/files/" THEN Dispatch(h, r, e, s1, "serveFiles")
    ELSE IF r.path = "/localapi/v0/file-put/" THEN Dispatch(h, r, e, s1, "serveFilePut")
    ELSE IF r.path = "/localapi/v0/cert/" THEN Dispatch(h, r, e, s1, "serveCert")
    ELSE IF r.path \in ExactPaths THEN Dispatch(h, r, e, s1, HandlerOf(r.path))
    ELSE IF r.path = "/" THEN [s1 EXCEPT !.w = Write(@, "tailscaled", 0)]
    ELSE Reply(s1, "404 not found", StatusNotFound)

(***************************************************************************)
(* The inputs: handlers, requests and the outcomes of the environment.     *)
(***************************************************************************)
Handlers ==
  [b : BOOLEAN, RequiredPassword : {"", "pw"}, PermitRead : BOOLEAN,
   PermitWrite : BOOLEAN, PermitCert : BOOLEAN]

Methods == {"GET", "POST", "PUT", "PATCH", "DELETE"}

\* r.BasicAuth(): ok is whether the request carries basic-auth credentials
Auths == {[ok |-> FALSE, pass |-> ""], [ok |-> TRUE, pass |-> "pw"],
          [ok |-> TRUE, pass |-> "wrong"]}

Form0 ==
  [peers |-> "", addr |-> "", action |-> "", aud |-> "", expiry |-> "", ip |-> "",
   type |-> "", note |-> ""]

Hdr0 == [connection |-> "", upgrade |-> "", dialHost |-> "", dialPort |-> ""]

R0 ==
  [path |-> "/", suffix |-> "", method |-> "GET", auth |-> [ok |-> FALSE, pass |-> ""],
   form |-> Form0, hdr |-> Hdr0, body |-> "ok", mp |-> 0, clientMetrics |-> <<>>]

\* the entries an upload body can carry: "a" is a name only uploads use,
\* "c" a name the daemon's own code has published
UploadEntries ==
  { [name |-> "a", type |-> "counter", value |-> 1],
    [name |-> "a", type |-> "gauge", value |-> 1],
    [name |-> "a", type |-> "bogus", value |-> 1],
    [name |-> "c", type |-> "counter", value |-> 1] }

\* longest array of an upload body
MaxEntries == 2

\* largest value a metric reaches in the model
MaxValue == 2

UploadBodies == UNION { [1..n -> UploadEntries] : n \in 0..MaxEntries }

\* the headers of a well-formed dial request, and those with one of them off
DialHdr == [connection |-> "upgrade", upgrade |-> upgradeProto, dialHost |-> "peer",
            dialPort |-> "22"]

DialHeaders ==
  { DialHdr, [DialHdr EXCEPT !.connection = ""], [DialHdr EXCEPT !.upgrade = ""],
    [DialHdr EXCEPT !.upgrade = "websocket"], [DialHdr EXCEPT !.dialHost = ""],
    [DialHdr EXCEPT !.dialPort = ""],
    [DialHdr EXCEPT !.connection = "keep-alive, upgrade"] }

\* requests by path, before the method and the credentials are varied
Variants ==
  { [R0 EXCEPT !.path = p] :
      p \in {"/", "/localapi/v0/nope", "/localapi/v0/goroutines", "/localapi/v0/profile",
             "/localapi/v0/logout", "/localapi/v0/login-interactive",
             "/localapi/v0/check-ip-forwarding", "/localapi/v0/file-targets",
             "/localapi/v0/derpmap", "/localapi/v0/metrics", "/localapi/v0/set-dns"} }
  \cup { [R0 EXCEPT !.path = "/localapi/v0/status", !.form.peers = v] : v \in {"", "false"} }
  \cup { [R0 EXCEPT !.path = "/localapi/v0/whois", !.form.addr = v] :
           v \in {"", "bad", "100.64.0.1:80"} }
  \cup { [R0 EXCEPT !.path = "/localapi/v0/prefs", !.body = b, !.mp = v] :
           b \in {"ok", "bad"}, v \in 0..MaxPrefs }
  \cup { [R0 EXCEPT !.path = "/localapi/v0/check-prefs", !.body = b] : b \in {"ok", "bad"} }
  \cup { [R0 EXCEPT !.path = "/localapi/v0/bugreport", !.form.note = v] : v \in {"", "n"} }
  \cup { [R0 EXCEPT !.path = "/localapi/v0/debug", !.form.action = v] :
           v \in {"", "rebind", "restun", "bogus"} }
  \cup { [R0 EXCEPT !.path = "/localapi/v0/set-expiry-sooner", !.form.expiry = v] :
           v \in {"", "x", "100"} }
  \cup { [R0 EXCEPT !.path = "/localapi/v0/ping", !.form.ip = v, !.form.type = t] :
           v \in {"", "bad", "100.64.0.1"}, t \in {"", "disco"} }
  \cup { [R0 EXCEPT !.path = "/localapi/v0/dial", !.hdr = d] : d \in DialHeaders }
  \cup { [R0 EXCEPT !.path = "/localapi/v0/id-token", !.form.aud = v] :
           v \in {"", " ", "aud"} }
  \cup { [R0 EXCEPT !.path = "/localapi/v0/upload-client-metrics", !.clientMetrics = ms] :
           ms \in UploadBodies }
  \cup { [R0 EXCEPT !.path = "/localapi/v0/upload-client-metrics", !.body = "bad"] }
  \cup { [R0 EXCEPT !.path = "/localapi/v0/files/", !.suffix = v] : v \in {"", "f1", "%zz"} }
  \cup { [R0 EXCEPT !.path = "/localapi/v0/file-put/", !.suffix = v] :
           v \in {"n1/f", "bogus"} }
  \cup { [R0 EXCEPT !.path = "/localapi/v0/cert/", !.suffix = "d"] }

\* every variant with every method, carrying the password that a Handler
\* with a RequiredPassword expects; and, to exercise the password gate, one
\* request per path without credentials and one with a wrong password
Paths == { v.path : v \in Variants }

Requests ==
  { [v EXCEPT !.method = m, !.auth = [ok |-> TRUE, pass |-> "pw"]] :
      v \in Variants, m \in Methods }
  \cup { [v EXCEPT !.method = "HEAD", !.auth = [ok |-> TRUE, pass |-> "pw"]] :
          v \in { x \in Variants : x.path = "/localapi/v0/prefs" } }
  \cup { [R0 EXCEPT !.path = p, !.method = m, !.auth = a] :
          p \in Paths, m \in {"GET", "POST"}, a \in Auths \ {[ok |-> TRUE, pass |-> "pw"]} }

DialRequests ==
  { [R0 EXCEPT !.path = "/localapi/v0/dial", !.hdr = d, !.method = m] :
      d \in DialHeaders, m \in Methods }

\* a dial request that passes serveDial's checks of the request
DialReady(r) ==
  /\ r.path = "/localapi/v0/dial" /\ r.method = "POST"
  /\ ContainsUpgrade(r.hdr.connection) /\ r.hdr.upgrade = upgradeProto
  /\ r.hdr.dialHost # "" /\ r.hdr.dialPort # ""

\* the outcomes of everything outside the handler during one request:
\*   berr       the backend call of the handler returns an error
\*   netmap     the backend has a netmap
\*   found      WhoIs matched / the stable id is among the file targets
\*   urlOK      the file target's peer API URL parses
\*   upStatus   the status of the upstream (or peer) reply
\*   copyErr    relaying the upstream body fails / the peer transport fails
\*   size       the size of the opened file
\*   profile    serveProfileFunc is linked in
\*   hijacker   the response writer is an http.Hijacker
\*   hijackErr, flushErr   Hijack fails, brw.Flush fails
\*   sent, buffered        how many bytes the client has sent after its
\*                         headers when the connection is hijacked, and how
\*                         many of those the server's bufio.Reader holds
E0 ==
  [berr |-> FALSE, netmap |-> TRUE, found |-> TRUE, urlOK |-> TRUE,
   upStatus |-> StatusOK, copyErr |-> FALSE, size |-> 1, profile |-> TRUE,
   hijacker |-> TRUE, hijackErr |-> FALSE, flushErr |-> FALSE, sent |-> 0, buffered |-> 0]

Envs(r) ==
  IF r.path = "/localapi/v0/dial" /\ ~DialReady(r) THEN {E0}
  ELSE IF r.path = "/localapi/v0/dial" THEN
    { [E0 EXCEPT !.berr = x, !.hijacker = y] : x, y \in BOOLEAN }
    \cup { [E0 EXCEPT !.hijackErr = TRUE], [E0 EXCEPT !.flushErr = TRUE] }
    \cup UNION { { [E0 EXCEPT !.sent = n, !.buffered = k] : k \in 0..n } : n \in 0..MaxBytes }
  ELSE IF r.path = "/localapi/v0/id-token" THEN
    { [E0 EXCEPT !.berr = x, !.netmap = y, !.copyErr = z, !.upStatus = u] :
        x, y, z \in BOOLEAN, u \in {StatusOK, StatusForbidden} }
  ELSE IF r.path = "/localapi/v0/file-put/" THEN
    { [E0 EXCEPT !.berr = x, !.found = y, !.urlOK = z] : x, y, z \in BOOLEAN }
    \cup { [E0 EXCEPT !.copyErr = TRUE], [E0 EXCEPT !.upStatus = StatusForbidden] }
  ELSE IF r.path = "/localapi/v0/files/" THEN
    { [E0 EXCEPT !.berr = x, !.size = n] : x \in BOOLEAN, n \in 0..1 }
  ELSE IF r.path = "/localapi/v0/whois" THEN { [E0 EXCEPT !.found = x] : x \in BOOLEAN }
  ELSE IF r.path = "/localapi/v0/profile" THEN { [E0 EXCEPT !.profile = x] : x \in BOOLEAN }
  ELSE { [E0 EXCEPT !.berr = x] : x \in BOOLEAN }

(***************************************************************************)
(* The Windows DNS configurator (windowsManager).  The host is the         *)
(* registry of the Tailscale interface, one key per address family with    *)
(* the values NameServer, SearchList, EnableMulticast and                  *)
(* DisableDynamicUpdate, and the NRPT rules.  A value is <<>> when absent  *)
(* and <<v>> when set.  A call threads the record                          *)
(*   d = [host, err, trace, logs, bg]                                      *)
(* through the code: err is "nil" or the error, trace the registry         *)
(* operations done so far, logs the lines logged, bg the number of         *)
(* ipconfig goroutines started.                                            *)
(***************************************************************************)
ipv4RegBase == "Tcpip"

ipv6RegBase == "Tcpip6"

NoValue == <<>>

Value(v) == <<v>>

\* calls made on one configurator
MaxCalls == 1

\* netip.Addr.Is4
Is4(ip) == ip = "100.100.100.100"

\* dnsname.FQDN.WithoutTrailingDot
WithoutTrailingDot(dom) ==
  CASE dom = "ts.net." -> "ts.net"
    [] dom = "corp.example." -> "corp.example"
    [] OTHER -> dom

\* strings.Join
RECURSIVE Join(_, _)
Join(elems, sep) ==
  IF elems = <<>> THEN ""
  ELSE IF Len(elems) = 1 THEN elems[1]
  ELSE elems[1] \o sep \o Join(Tail(elems), sep)

\* OSConfig, and the configurations the backend hands to SetDNS
EmptyConfig == [Nameservers |-> <<>>, SearchDomains |-> <<>>, MatchDomains |-> <<>>]

Configs ==
  { [Nameservers |-> ns, SearchDomains |-> sd, MatchDomains |-> md] :
      ns \in {<<>>, <<"100.100.100.100">>, <<"100.100.100.100", "fd7a:115c:a1e0::53">>},
      sd \in {<<>>, <<"ts.net.">>},
      md \in {<<>>, <<"corp.example.">>} }

\* the registry operation of a call that fails, if one does: the index of
\* the failing operation of disableDynamicUpdates or of setPrimaryDNS (0:
\* none), or the NRPT operation of setSplitDNS
NoFault == [ddu |-> 0, split |-> FALSE, primary |-> 0]

Faults ==
  { f \in [ddu : 0..4, split : BOOLEAN, primary : 0..8] :
      \/ f.ddu = 0 /\ ~f.split
      \/ f.ddu = 0 /\ f.primary = 0
      \/ f.ddu \in {2, 4} /\ ~f.split /\ f.primary = 0 }

NewCall(host0) == [host |-> host0, err |-> "nil", trace |-> <<>>, logs |-> <<>>, bg |-> 0]

\* m.openKey, key.SetStringValue / key.SetDWordValue, delValue (which
\* takes a value that does not exist for deleted)
ApplyOp(d, o) ==
  IF o.op = "open" THEN [d EXCEPT !.trace = Append(@, o)]
  ELSE [d EXCEPT !.host.reg[o.key][o.name] = o.val, !.trace = Append(@, o)]

\* a run of registry operations that returns at the first one that fails
RECURSIVE RunOps(_, _, _, _)
RunOps(d, ops, i, failAt) ==
  IF i > Len(ops) THEN d
  ELSE IF i = failAt THEN [d EXCEPT !.err = "registry error"]
  ELSE RunOps(ApplyOp(d, ops[i]), ops, i + 1, failAt)

openKey(regBase) == [op |-> "open", key |-> regBase, name |-> "", val |-> NoValue]

SetStringValue(regBase, name, v) == [op |-> "set", key |-> regBase, name |-> name, val |-> Value(v)]

SetDWordValue(regBase, name, v) == [op |-> "set", key |-> regBase, name |-> name, val |-> Value(v)]

DeleteValue(regBase, name) == [op |-> "del", key |-> regBase, name |-> name, val |-> NoValue]

\* nrptRuleDatabase: DelAllRuleKeys, WriteSplitDNSConfig, Refresh
DelAllRuleKeys(d, fails) ==
  IF fails THEN [d EXCEPT !.err = "nrpt error"]
  ELSE [d EXCEPT !.host.nrpt = NoValue,
                 !.trace = Append(@, [op |-> "nrptDel", key |-> "nrpt", name |-> "",
                                      val |-> NoValue])]

WriteSplitDNSConfig(d, servers, domains, fails) ==
  IF fails THEN [d EXCEPT !.err = "nrpt error"]
  ELSE [d EXCEPT !.host.nrpt = Value([servers |-> servers, domains |-> domains]),
                 !.trace = Append(@, [op |-> "nrptWrite", key |-> "nrpt", name |-> "",
                                      val |-> Value([servers |-> servers, domains |-> domains])])]

Refresh(d) ==
  [d EXCEPT !.trace = Append(@, [op |-> "refresh", key |-> "nrpt", name |-> "", val |-> NoValue])]

\* setSplitDNS leaving the rules in place when it is given no resolvers
setSplitDNS_KeepRules(d, m, resolvers, domains, fails) ==
  IF ~m.nrptDB THEN
    IF resolvers = <<>> THEN d
    ELSE [d EXCEPT !.err = "Split DNS unsupported on this Windows version"]
  ELSE Refresh(IF Len(resolvers) = 0 THEN d
               ELSE WriteSplitDNSConfig(d, resolvers, domains, fails))

setSplitDNS(d, m, resolvers, domains, fails) ==
  IF ~m.nrptDB THEN
    IF resolvers = <<>> THEN d
    ELSE [d EXCEPT !.err = "Split DNS unsupported on this Windows version"]
  ELSE Refresh(IF Len(resolvers) = 0 THEN DelAllRuleKeys(d, fails)
               ELSE WriteSplitDNSConfig(d, resolvers, domains, fails))

\* setPrimaryDNS adding the domains to the SearchList it finds
setPrimaryDNS_AppendSearch(d, resolvers, domains, failAt) ==
  LET ipsv4 == SelectSeq(resolvers, Is4)
      ipsv6 == SelectSeq(resolvers, LAMBDA ip : ~Is4(ip))
      domStrs == [i \in DOMAIN domains |-> WithoutTrailingDot(domains[i])]
      NameServer(regBase, ips) ==
        IF Len(ips) = 0 THEN DeleteValue(regBase, "NameServer")
        ELSE SetStringValue(regBase, "NameServer", Join(ips, ","))
      SearchList(regBase) ==
        IF Len(domains) = 0 THEN DeleteValue(regBase, "SearchList")
        ELSE IF d.host.reg[regBase].SearchList = NoValue
          THEN SetStringValue(regBase, "SearchList", Join(domStrs, ","))
        ELSE SetStringValue(regBase, "SearchList",
                            d.host.reg[regBase].SearchList[1] \o "," \o Join(domStrs, ","))
  IN RunOps(d, << openKey(ipv4RegBase), NameServer(ipv4RegBase, ipsv4), SearchList(ipv4RegBase),
                  openKey(ipv6RegBase), NameServer(ipv6RegBase, ipsv6), SearchList(ipv6RegBase),
                  SetDWordValue(ipv4RegBase, "EnableMulticast", 0),
                  SetDWordValue(ipv6RegBase, "EnableMulticast", 0) >>, 1, failAt)

setPrimaryDNS(d, resolvers, domains, failAt) ==
  LET ipsv4 == SelectSeq(resolvers, Is4)
      ipsv6 == SelectSeq(resolvers, LAMBDA ip : ~Is4(ip))
      domStrs == [i \in DOMAIN domains |-> WithoutTrailingDot(domains[i])]
      NameServer(regBase, ips) ==
        IF Len(ips) = 0 THEN DeleteValue(regBase, "NameServer")
        ELSE SetStringValue(regBase, "NameServer", Join(ips, ","))
      SearchList(regBase) ==
        IF Len(domains) = 0 THEN DeleteValue(regBase, "SearchList")
        ELSE SetStringValue(regBase, "SearchList", Join(domStrs, ","))
  IN RunOps(d, << openKey(ipv4RegBase), NameServer(ipv4RegBase, ipsv4), SearchList(ipv4RegBase),
                  openKey(ipv6RegBase), NameServer(ipv6RegBase, ipsv6), SearchList(ipv6RegBase),
                  SetDWordValue(ipv4RegBase, "EnableMulticast", 0),
                  SetDWordValue(ipv6RegBase, "EnableMulticast", 0) >>, 1, failAt)

disableDynamicUpdates(d, failAt) ==
  RunOps(d, << openKey(ipv4RegBase), SetDWordValue(ipv4RegBase, "DisableDynamicUpdate", 1),
               openKey(ipv6RegBase), SetDWordValue(ipv6RegBase, "DisableDynamicUpdate", 1) >>,
         1, failAt)

\* SetDNS going on to setSplitDNS whether or not there is an NRPT database
SetDNS_NoSplitGuard(m, cfg, host0, f) ==
  LET d1 == disableDynamicUpdates(NewCall(host0), f.ddu)
      d2 == IF d1.err # "nil"
              THEN [d1 EXCEPT !.err = "nil", !.logs = Append(@, "disableDynamicUpdates error")]
              ELSE d1
      s == IF Len(cfg.MatchDomains) = 0 THEN setSplitDNS(d2, m, <<>>, <<>>, f.split)
           ELSE setSplitDNS(d2, m, cfg.Nameservers, cfg.MatchDomains, f.split)
      d3 == IF s.err # "nil" THEN s
            ELSE IF Len(cfg.MatchDomains) = 0
              THEN setPrimaryDNS(s, cfg.Nameservers, cfg.SearchDomains, f.primary)
            ELSE setPrimaryDNS(s, <<>>, cfg.SearchDomains, f.primary)
  IN IF d3.err # "nil" THEN d3 ELSE [d3 EXCEPT !.bg = @ + 1]

\* SetDNS going on to setPrimaryDNS after setSplitDNS failed
SetDNS_IgnoreSplitError(m, cfg, host0, f) ==
  LET d1 == disableDynamicUpdates(NewCall(host0), f.ddu)
      d2 == IF d1.err # "nil"
              THEN [d1 EXCEPT !.err = "nil", !.logs = Append(@, "disableDynamicUpdates error")]
              ELSE d1
      d3 == IF Len(cfg.MatchDomains) = 0 THEN
              LET s == setSplitDNS(d2, m, <<>>, <<>>, f.split) IN
                setPrimaryDNS([s EXCEPT !.err = "nil"], cfg.Nameservers, cfg.SearchDomains,
                              f.primary)
            ELSE IF ~m.nrptDB
              THEN [d2 EXCEPT !.err = "cannot set per-domain resolvers on Windows 7"]
            ELSE
              LET s == setSplitDNS(d2, m, cfg.Nameservers, cfg.MatchDomains, f.split) IN
                setPrimaryDNS([s EXCEPT !.err = "nil"], <<>>, cfg.SearchDomains, f.primary)
  IN IF d3.err # "nil" THEN d3
     ELSE [d3 EXCEPT !.bg = @ + 1]

SetDNS(m, cfg, host0, f) ==
  LET d1 == disableDynamicUpdates(NewCall(host0), f.ddu)
      d2 == IF d1.err # "nil"
              THEN [d1 EXCEPT !.err = "nil", !.logs = Append(@, "disableDynamicUpdates error")]
              ELSE d1
      d3 == IF Len(cfg.MatchDomains) = 0 THEN
              LET s == setSplitDNS(d2, m, <<>>, <<>>, f.split) IN
                IF s.err # "nil" THEN s
                ELSE setPrimaryDNS(s, cfg.Nameservers, cfg.SearchDomains, f.primary)
            ELSE IF ~m.nrptDB
              THEN [d2 EXCEPT !.err = "cannot set per-domain resolvers on Windows 7"]
            ELSE
              LET s == setSplitDNS(d2, m, cfg.Nameservers, cfg.MatchDomains, f.split) IN
                IF s.err # "nil" THEN s
                ELSE setPrimaryDNS(s, <<>>, cfg.SearchDomains, f.primary)
  IN IF d3.err # "nil" THEN d3
     \* go func() { ipconfig /registerdns; ipconfig /flushdns }()
     ELSE [d3 EXCEPT !.bg = @ + 1]

SupportsSplitDNS(m) == m.nrptDB

\* the hosts a configurator can find: nothing set, or values left by
\* others on either key, or NRPT rules left behind
CleanKey ==
  [NameServer |-> NoValue, SearchList |-> NoValue, EnableMulticast |-> NoValue,
   DisableDynamicUpdate |-> NoValue]

OldKey ==
  [NameServer |-> Value("10.0.0.1"), SearchList |-> Value("old.example"),
   EnableMulticast |-> Value(1), DisableDynamicUpdate |-> Value(0)]

CleanHost == [reg |-> [k \in {ipv4RegBase, ipv6RegBase} |-> CleanKey], nrpt |-> NoValue]

InitialHosts ==
  { [reg |-> [k \in {ipv4RegBase, ipv6RegBase} |-> IF k = ipv4RegBase THEN k4 ELSE k6],
     nrpt |-> n] :
      k4 \in {CleanKey, OldKey}, k6 \in {CleanKey, OldKey},
      n \in {NoValue, Value([servers |-> <<"10.0.0.1">>, domains |-> <<"old.example.">>])} }

(***************************************************************************)
(* State of the configurator.                                              *)
(*   host     the registry values and NRPT rules of the host               *)
(*   mgr      the windowsManager: whether it has an NRPT database, and     *)
(*            whether Close has released it                                *)
(*   dlast    the last call that has returned: its name, its config, the   *)
(*            host it found, and what it returned, logged and did          *)
(*   ncalls   the calls made so far                                        *)
(*   conc     calls made concurrently by two goroutines: the host they     *)
(*            started on, and for each goroutine its call and the next     *)
(*            of the call's writes                                         *)
(***************************************************************************)
VARIABLES host, mgr, dlast, ncalls, conc

dnsVars == <<host, mgr, dlast, ncalls, conc>>

NoCall ==
  [op |-> "", cfg |-> EmptyConfig, before |-> CleanHost, err |-> "nil", logs |-> <<>>,
   trace |-> <<>>, bg |-> 0]

Goroutines == {1, 2}

IdleCall == [st |-> "idle", op |-> "", cfg |-> EmptyConfig, i |-> 0]

NoConc == [before |-> CleanHost, call |-> [gr \in Goroutines |-> IdleCall]]

\* NewOSConfigurator: the NRPT database exists on Windows 10 and later
NewOSConfigurator(win10) == [nrptDB |-> win10, closed |-> FALSE]

InitIdleDNS ==
  /\ host = CleanHost
  /\ mgr = NewOSConfigurator(TRUE)
  /\ dlast = NoCall
  /\ ncalls = 0
  /\ conc = NoConc

(***************************************************************************)
(* The DNS manager: Manager.Set compiles a dns.Config (the policy) into    *)
(* the OSConfig handed to the OSConfigurator and the resolver.Config       *)
(* handed to the in-daemon resolver.  Maps are functions on their keys,    *)
(* the empty map being <<>>.  The OSConfigurator is the fakeOSConfigurator *)
(* of the manager's test, and the test's table gives what Set produces.    *)
(***************************************************************************)
\* tsaddr.TailscaleServiceIP
magicIP == "100.100.100.100"

DoHResolver == "http://[fd7a:115c:a1e0:ab12:4843:cd96:6245:7a66]:2982/doh"

\* dnstype.Resolver.IPPort: the resolver is a plain IP, port 53
IsIPResolver(r) == r # DoHResolver

EmptyMap == <<>>

\* hosts("dave.ts.com.", "1.2.3.4", "bradfitz.ts.com.", "2.3.4.5")
DaveAndBrad == ("dave.ts.com." :> <<"1.2.3.4">>) @@ ("bradfitz.ts.com." :> <<"2.3.4.5">>)

\* the route suffixes, in the order sort puts them
Suffixes == <<"bigco.net.", "corp.com.", "ts.com.">>

EmptyPolicy ==
  [DefaultResolvers |-> <<>>, Routes |-> EmptyMap, SearchDomains |-> <<>>, Hosts |-> EmptyMap]

EmptyResolverConfig == [Routes |-> EmptyMap, Hosts |-> EmptyMap, LocalDomains |-> {}]

\* the policies handed to Set: every map of the suffixes to no upstream
\* (MagicDNS), 2.2.2.2 or 3.3.3.3
Policies ==
  { [DefaultResolvers |-> dr, Routes |-> rt, SearchDomains |-> sd, Hosts |-> hs] :
      dr \in {<<>>, <<"1.1.1.1", "9.9.9.9">>, <<DoHResolver>>},
      rt \in UNION { [ks -> {<<>>, <<"2.2.2.2">>, <<"3.3.3.3">>}] : ks \in SUBSET { Suffixes[i] : i \in DOMAIN Suffixes } },
      sd \in {<<>>, <<"tailscale.com.", "universe.tf.">>},
      hs \in {EmptyMap, DaveAndBrad} }

\* the base configurations the host reports
BaseConfigs ==
  { EmptyConfig,
    [Nameservers |-> <<"8.8.8.8">>, SearchDomains |-> <<"coffee.shop.">>, MatchDomains |-> <<>>],
    \* a base config sharing a search domain with the policy
    [Nameservers |-> <<"8.8.8.8">>, SearchDomains |-> <<"universe.tf.", "coffee.shop.">>,
     MatchDomains |-> <<>>] }

hasDefaultResolvers(c) == Len(c.DefaultResolvers) > 0

hasRoutes(c) == DOMAIN c.Routes # {}

needsOSResolver(c) == hasDefaultResolvers(c) \/ hasRoutes(c)

hasDefaultIPResolversOnly(c) ==
  /\ hasDefaultResolvers(c) /\ ~hasRoutes(c)
  /\ \A i \in DOMAIN c.DefaultResolvers : IsIPResolver(c.DefaultResolvers[i])

toIPsOnly(resolvers) == SelectSeq(resolvers, IsIPResolver)

\* the upstreams of the policy's only route, nil (<<>>) when it has several
\* routes or none
singleResolverSet(c) ==
  IF \E s \in DOMAIN c.Routes : DOMAIN c.Routes = {s}
    THEN c.Routes[CHOOSE s \in DOMAIN c.Routes : TRUE]
    ELSE <<>>

\* the route suffixes, sorted
matchDomains(c) == SelectSeq(Suffixes, LAMBDA s : s \in DOMAIN c.Routes)

\* the routes with upstreams, and the suffixes without (answered locally)
ForwardedRoutes(c) ==
  [s \in { t \in DOMAIN c.Routes : Len(c.Routes[t]) > 0 } |-> c.Routes[s]]

Intercepted(c) == { s \in DOMAIN c.Routes : Len(c.Routes[s]) = 0 }

WithDefaultRoute(routes, resolvers) == ("." :> resolvers) @@ routes

\* the base config's search domains appended to the policy's, without
\* repeating one that is already there
AppendSearchDomains(sd, base) ==
  sd \o SelectSeq(base, LAMBDA s : \A i \in DOMAIN sd : sd[i] # s)

\* Manager.compileConfig, on a host other than Windows: the configs for a
\* policy c, an OSConfigurator whose SupportsSplitDNS is split and whose
\* GetBaseConfig is bs
compileConfig(c, split, bs) ==
  LET rcfg == [Routes |-> EmptyMap, Hosts |-> c.Hosts, LocalDomains |-> Intercepted(c)]
      ocfg == [Nameservers |-> <<>>, SearchDomains |-> c.SearchDomains, MatchDomains |-> <<>>]
  IN \* search domains and hosts only: nothing else is set
     IF ~needsOSResolver(c) THEN [rcfg |-> rcfg, ocfg |-> ocfg]
     \* plain default resolvers and no route: the OS is pointed at them
     ELSE IF hasDefaultIPResolversOnly(c)
       THEN [rcfg |-> rcfg, ocfg |-> [ocfg EXCEPT !.Nameservers = toIPsOnly(c.DefaultResolvers)]]
     \* default resolvers and more: everything goes through the daemon
     ELSE IF hasDefaultResolvers(c)
       THEN [rcfg |-> [rcfg EXCEPT !.Routes = WithDefaultRoute(ForwardedRoutes(c), c.DefaultResolvers)],
             ocfg |-> [ocfg EXCEPT !.Nameservers = <<magicIP>>]]
     \* routes that share their resolvers, on an OS that can split
     ELSE IF singleResolverSet(c) # <<>> /\ split
       THEN [rcfg |-> rcfg,
             ocfg |-> [ocfg EXCEPT !.Nameservers = toIPsOnly(singleResolverSet(c)),
                                   !.MatchDomains = matchDomains(c)]]
     \* split through the daemon
     ELSE IF split
       THEN [rcfg |-> [rcfg EXCEPT !.Routes = ForwardedRoutes(c)],
             ocfg |-> [ocfg EXCEPT !.Nameservers = <<magicIP>>,
                                   !.MatchDomains = matchDomains(c)]]
     \* no split on this OS: the daemon is primary and forwards the rest to
     \* the base config's resolvers
     ELSE [rcfg |-> [rcfg EXCEPT !.Routes = WithDefaultRoute(ForwardedRoutes(c), bs.Nameservers)],
           ocfg |-> [ocfg EXCEPT !.Nameservers = <<magicIP>>,
                                 !.SearchDomains = AppendSearchDomains(@, bs.SearchDomains)]]

\* fakeOSConfigurator: SupportsSplitDNS, GetBaseConfig, SetResolver, and
\* SetDNS, which panics on a split config it cannot take
NewFake(split, bs) ==
  [SplitDNS |-> split, BaseConfig |-> bs, OSConfig |-> EmptyConfig,
   ResolverConfig |-> EmptyResolverConfig, panicked |-> FALSE]

\* SupportsSplitDNS answering yes on every host
fakeSupportsSplitDNS_Always(fk) == fk.SplitDNS \in BOOLEAN

fakeSupportsSplitDNS(fk) == fk.SplitDNS

\* GetBaseConfig reporting no resolvers and no search domains
fakeGetBaseConfig_Empty(fk) == [fk.BaseConfig EXCEPT !.Nameservers = <<>>, !.SearchDomains = <<>>]

\* GetBaseConfig reporting no search domains
fakeGetBaseConfig_NoSearchDomains(fk) == [fk.BaseConfig EXCEPT !.SearchDomains = <<>>]

fakeGetBaseConfig(fk) == fk.BaseConfig

\* SetResolver losing the local domains
fakeSetResolver_NoLocalDomains(fk, cfg) ==
  [fk EXCEPT !.ResolverConfig = [cfg EXCEPT !.LocalDomains = {}]]

\* SetResolver adding a default route without upstreams
fakeSetResolver_DefaultRoute(fk, cfg) ==
  [fk EXCEPT !.ResolverConfig = [cfg EXCEPT !.Routes = ("." :> <<>>) @@ @]]

\* SetResolver losing the hosts
fakeSetResolver_NoHosts(fk, cfg) ==
  [fk EXCEPT !.ResolverConfig = [cfg EXCEPT !.Hosts = EmptyMap]]

fakeSetResolver(fk, cfg) == [fk EXCEPT !.ResolverConfig = cfg]

\* SetDNS recording the nameservers last to first
fakeSetDNS_ReverseNameservers(fk, cfg) ==
  IF ~fk.SplitDNS /\ Len(cfg.MatchDomains) > 0 THEN [fk EXCEPT !.panicked = TRUE]
  ELSE [fk EXCEPT !.OSConfig =
          [cfg EXCEPT !.Nameservers =
             [i \in DOMAIN @ |-> cfg.Nameservers[Len(cfg.Nameservers) + 1 - i]]]]

\* SetDNS recording no search domains
fakeSetDNS_NoSearchDomains(fk, cfg) ==
  IF ~fk.SplitDNS /\ Len(cfg.MatchDomains) > 0 THEN [fk EXCEPT !.panicked = TRUE]
  ELSE [fk EXCEPT !.OSConfig = [cfg EXCEPT !.SearchDomains = <<>>]]

fakeSetDNS(fk, cfg) ==
  IF ~fk.SplitDNS /\ Len(cfg.MatchDomains) > 0 THEN [fk EXCEPT !.panicked = TRUE]
  ELSE [fk EXCEPT !.OSConfig = cfg]

\* Manager.Set: compile, configure the resolver, then the OS
ManagerSet(fk, c) ==
  LET out == compileConfig(c, fakeSupportsSplitDNS(fk), fakeGetBaseConfig(fk))
  IN fakeSetDNS(fakeSetResolver(fk, out.rcfg), out.ocfg)

\* the table of TestManager
TailscaleSearch == <<"tailscale.com.", "universe.tf.">>

CoffeeShop ==
  [Nameservers |-> <<"8.8.8.8">>, SearchDomains |-> <<"coffee.shop.">>, MatchDomains |-> <<>>]

CorpAndMagic == ("corp.com." :> <<"2.2.2.2">>) @@ ("ts.com." :> <<>>)

CorpAndBigco == ("corp.com." :> <<"2.2.2.2">>) @@ ("bigco.net." :> <<"3.3.3.3">>)

tests ==
  { [name |-> "empty", in |-> EmptyPolicy, split |-> FALSE, bs |-> EmptyConfig,
     os |-> EmptyConfig, rs |-> EmptyResolverConfig],
    [name |-> "search-only",
     in |-> [EmptyPolicy EXCEPT !.SearchDomains = TailscaleSearch],
     split |-> FALSE, bs |-> EmptyConfig,
     os |-> [EmptyConfig EXCEPT !.SearchDomains = TailscaleSearch],
     rs |-> EmptyResolverConfig],
    [name |-> "hosts-only",
     in |-> [EmptyPolicy EXCEPT !.Hosts = DaveAndBrad],
     split |-> FALSE, bs |-> EmptyConfig,
     os |-> EmptyConfig,
     rs |-> [EmptyResolverConfig EXCEPT !.Hosts = DaveAndBrad]],
    [name |-> "corp",
     in |-> [EmptyPolicy EXCEPT !.DefaultResolvers = <<"1.1.1.1", "9.9.9.9">>,
                                !.SearchDomains = TailscaleSearch],
     split |-> FALSE, bs |-> EmptyConfig,
     os |-> [EmptyConfig EXCEPT !.Nameservers = <<"1.1.1.1", "9.9.9.9">>,
                                !.SearchDomains = TailscaleSearch],
     rs |-> EmptyResolverConfig],
    [name |-> "corp-split",
     in |-> [EmptyPolicy EXCEPT !.DefaultResolvers = <<"1.1.1.1", "9.9.9.9">>,
                                !.SearchDomains = TailscaleSearch],
     split |-> TRUE, bs |-> EmptyConfig,
     os |-> [EmptyConfig EXCEPT !.Nameservers = <<"1.1.1.1", "9.9.9.9">>,
                                !.SearchDomains = TailscaleSearch],
     rs |-> EmptyResolverConfig],
    [name |-> "corp-magic",
     in |-> [DefaultResolvers |-> <<"1.1.1.1", "9.9.9.9">>, SearchDomains |-> TailscaleSearch,
             Routes |-> ("ts.com." :> <<>>), Hosts |-> DaveAndBrad],
     split |-> FALSE, bs |-> EmptyConfig,
     os |-> [EmptyConfig EXCEPT !.Nameservers = <<"100.100.100.100">>,
                                !.SearchDomains = TailscaleSearch],
     rs |-> [Routes |-> ("." :> <<"1.1.1.1", "9.9.9.9">>), Hosts |-> DaveAndBrad,
             LocalDomains |-> {"ts.com."}]],
    [name |-> "corp-magic-split",
     in |-> [DefaultResolvers |-> <<"1.1.1.1", "9.9.9.9">>, SearchDomains |-> TailscaleSearch,
             Routes |-> ("ts.com." :> <<>>), Hosts |-> DaveAndBrad],
     split |-> TRUE, bs |-> EmptyConfig,
     os |-> [EmptyConfig EXCEPT !.Nameservers = <<"100.100.100.100">>,
                                !.SearchDomains = TailscaleSearch],
     rs |-> [Routes |-> ("." :> <<"1.1.1.1", "9.9.9.9">>), Hosts |-> DaveAndBrad,
             LocalDomains |-> {"ts.com."}]],
    [name |-> "corp-routes",
     in |-> [DefaultResolvers |-> <<"1.1.1.1", "9.9.9.9">>, SearchDomains |-> TailscaleSearch,
             Routes |-> ("corp.com." :> <<"2.2.2.2">>), Hosts |-> EmptyMap],
     split |-> FALSE, bs |-> EmptyConfig,
     os |-> [EmptyConfig EXCEPT !.Nameservers = <<"100.100.100.100">>,
                                !.SearchDomains = TailscaleSearch],
     rs |-> [Routes |-> ("." :> <<"1.1.1.1", "9.9.9.9">>) @@ ("corp.com." :> <<"2.2.2.2">>),
             Hosts |-> EmptyMap, LocalDomains |-> {}]],
    [name |-> "corp-routes-split",
     in |-> [DefaultResolvers |-> <<"1.1.1.1", "9.9.9.9">>, SearchDomains |-> TailscaleSearch,
             Routes |-> ("corp.com." :> <<"2.2.2.2">>), Hosts |-> EmptyMap],
     split |-> TRUE, bs |-> EmptyConfig,
     os |-> [EmptyConfig EXCEPT !.Nameservers = <<"100.100.100.100">>,
                                !.SearchDomains = TailscaleSearch],
     rs |-> [Routes |-> ("." :> <<"1.1.1.1", "9.9.9.9">>) @@ ("corp.com." :> <<"2.2.2.2">>),
             Hosts |-> EmptyMap, LocalDomains |-> {}]],
    [name |-> "routes",
     in |-> [EmptyPolicy EXCEPT !.Routes = ("corp.com." :> <<"2.2.2.2">>),
                                !.SearchDomains = TailscaleSearch],
     split |-> FALSE, bs |-> CoffeeShop,
     os |-> [EmptyConfig EXCEPT !.Nameservers = <<"100.100.100.100">>,
                                !.SearchDomains = TailscaleSearch \o <<"coffee.shop.">>],
     rs |-> [Routes |-> ("." :> <<"8.8.8.8">>) @@ ("corp.com." :> <<"2.2.2.2">>),
             Hosts |-> EmptyMap, LocalDomains |-> {}]],
    [name |-> "routes-split",
     in |-> [EmptyPolicy EXCEPT !.Routes = ("corp.com." :> <<"2.2.2.2">>),
                                !.SearchDomains = TailscaleSearch],
     split |-> TRUE, bs |-> EmptyConfig,
     os |-> [Nameservers |-> <<"2.2.2.2">>, SearchDomains |-> TailscaleSearch,
             MatchDomains |-> <<"corp.com.">>],
     rs |-> EmptyResolverConfig],
    [name |-> "routes-multi",
     in |-> [EmptyPolicy EXCEPT !.Routes = CorpAndBigco, !.SearchDomains = TailscaleSearch],
     split |-> FALSE, bs |-> CoffeeShop,
     os |-> [EmptyConfig EXCEPT !.Nameservers = <<"100.100.100.100">>,
                                !.SearchDomains = TailscaleSearch \o <<"coffee.shop.">>],
     rs |-> [Routes |-> ("." :> <<"8.8.8.8">>) @@ CorpAndBigco,
             Hosts |-> EmptyMap, LocalDomains |-> {}]],
    [name |-> "routes-multi-split",
     in |-> [EmptyPolicy EXCEPT !.Routes = CorpAndBigco, !.SearchDomains = TailscaleSearch],
     split |-> TRUE, bs |-> EmptyConfig,
     os |-> [Nameservers |-> <<"100.100.100.100">>, SearchDomains |-> TailscaleSearch,
             MatchDomains |-> <<"bigco.net.", "corp.com.">>],
     rs |-> [Routes |-> CorpAndBigco, Hosts |-> EmptyMap, LocalDomains |-> {}]],
    [name |-> "magic",
     in |-> [DefaultResolvers |-> <<>>, SearchDomains |-> TailscaleSearch,
             Routes |-> ("ts.com." :> <<>>), Hosts |-> DaveAndBrad],
     split |-> FALSE, bs |-> CoffeeShop,
     os |-> [EmptyConfig EXCEPT !.Nameservers = <<"100.100.100.100">>,
                                !.SearchDomains = TailscaleSearch \o <<"coffee.shop.">>],
     rs |-> [Routes |-> ("." :> <<"8.8.8.8">>), Hosts |-> DaveAndBrad,
             LocalDomains |-> {"ts.com."}]],
    [name |-> "magic-split",
     in |-> [DefaultResolvers |-> <<>>, SearchDomains |-> TailscaleSearch,
             Routes |-> ("ts.com." :> <<>>), Hosts |-> DaveAndBrad],
     split |-> TRUE, bs |-> EmptyConfig,
     os |-> [Nameservers |-> <<"100.100.100.100">>, SearchDomains |-> TailscaleSearch,
             MatchDomains |-> <<"ts.com.">>],
     rs |-> [Routes |-> EmptyMap, Hosts |-> DaveAndBrad, LocalDomains |-> {"ts.com."}]],
    [name |-> "routes-magic",
     in |-> [DefaultResolvers |-> <<>>, SearchDomains |-> TailscaleSearch,
             Routes |-> CorpAndMagic, Hosts |-> DaveAndBrad],
     split |-> FALSE, bs |-> CoffeeShop,
     os |-> [EmptyConfig EXCEPT !.Nameservers = <<"100.100.100.100">>,
                                !.SearchDomains = TailscaleSearch \o <<"coffee.shop.">>],
     rs |-> [Routes |-> ("corp.com." :> <<"2.2.2.2">>) @@ ("." :> <<"8.8.8.8">>),
             Hosts |-> DaveAndBrad, LocalDomains |-> {"ts.com."}]],
    [name |-> "routes-magic-split",
     in |-> [DefaultResolvers |-> <<>>, SearchDomains |-> TailscaleSearch,
             Routes |-> CorpAndMagic, Hosts |-> DaveAndBrad],
     split |-> TRUE, bs |-> EmptyConfig,
     os |-> [Nameservers |-> <<"100.100.100.100">>, SearchDomains |-> TailscaleSearch,
             MatchDomains |-> <<"corp.com.", "ts.com.">>],
     rs |-> [Routes |-> ("corp.com." :> <<"2.2.2.2">>), Hosts |-> DaveAndBrad,
             LocalDomains |-> {"ts.com."}]],
    [name |-> "exit-node-forward",
     in |-> [DefaultResolvers |-> <<DoHResolver>>, SearchDomains |-> TailscaleSearch,
             Routes |-> EmptyMap, Hosts |-> DaveAndBrad],
     split |-> FALSE, bs |-> EmptyConfig,
     os |-> [EmptyConfig EXCEPT !.Nameservers = <<"100.100.100.100">>,
                                !.SearchDomains = TailscaleSearch],
     rs |-> [Routes |-> ("." :> <<DoHResolver>>), Hosts |-> DaveAndBrad,
             LocalDomains |-> {}]] }

\* TestManager: Set on a fresh manager produces the configs of the table
TestManager ==
  \A t \in tests :
     LET fk == ManagerSet(NewFake(t.split, t.bs), t.in)
     IN ~fk.panicked /\ fk.OSConfig = t.os /\ fk.ResolverConfig = t.rs

(***************************************************************************)
(* State of the DNS manager.                                               *)
(*   fake     the fakeOSConfigurator the manager configures                *)
(*   lastSet  whether Set has been called, and the policy it was given     *)
(***************************************************************************)
VARIABLES fake, lastSet

cmVars == <<fake, lastSet>>

InitIdleManager ==
  /\ fake = NewFake(FALSE, EmptyConfig)
  /\ lastSet = [done |-> FALSE, in |-> EmptyPolicy]

(***************************************************************************)
(* tstest.WaitFor.  Time is counted in clock ticks; wf holds the position  *)
(* of the one call of WaitFor (pc), its maxWait and deadline, the clock,   *)
(* err, the results of the calls made to try so far, and the value         *)
(* returned.                                                               *)
(***************************************************************************)
VARIABLES wf

(***************************************************************************)
(* The goroutines SetDNS starts.  tk.rets holds what each call of SetDNS   *)
(* returned, tk.tasks the goroutines started so far: the call that started *)
(* each, the command it runs next and the commands it has run with their   *)
(* outcome.                                                                *)
(***************************************************************************)
VARIABLES tk

(***************************************************************************)
(* Concurrent uploads of client metrics.  upl.mu is the holder of          *)
(* metricsMu (0 when it is free); upl.g the position of each request's     *)
(* goroutine in serveUploadClientMetrics, its decoded body and the index   *)
(* of the entry it is at; upl.created counts the calls of NewCounter and   *)
(* NewGauge per name and upl.added sums the values given to Add per name.  *)
(***************************************************************************)
VARIABLES upl

(***************************************************************************)
(* getBasePrimaryResolver.  bp.in is what the host reports to one call:    *)
(* whether the interface GUID resolves, the outcome of the two interface   *)
(* table lookups, the rows of the table, the resolvers of each interface   *)
(* and the interfaces whose resolvers cannot be read; bp.out is what the   *)
(* call returned.                                                          *)
(***************************************************************************)
VARIABLES bp

auxVars == <<wf, tk, upl, bp>>

\* largest interface metric
MaxMetric == 2

tsLUID == "ts"

OtherLUIDs == {"eth", "wifi"}

siteLocalResolvers == {"fec0:0:0:ffff::1", "fec0:0:0:ffff::2", "fec0:0:0:ffff::3"}

\* netip.Addr.Unmap: an IPv4-mapped IPv6 address becomes the IPv4 address
Unmap(ip) == IF ip = "::ffff:1.1.1.1" THEN "1.1.1.1" ELSE ip

\* what LUID.DNS() returns for an interface other than Tailscale's
ResolverLists ==
  { <<>>, <<"fec0:0:0:ffff::1", "fec0:0:0:ffff::2">>, <<"8.8.8.8", "::ffff:1.1.1.1">>,
    <<"fec0:0:0:ffff::3", "9.9.9.9", "fec0:0:0:ffff::1">> }

\* the interface tables: Tailscale's interface, connected, and each other
\* interface absent, or present with a metric, connected or not
IfTables ==
  { {[InterfaceLUID |-> tsLUID, Connected |-> TRUE, Metric |-> m]} \cup rest :
      m \in 1..MaxMetric,
      rest \in { R \in SUBSET [InterfaceLUID : OtherLUIDs, Connected : BOOLEAN,
                                Metric : 1..MaxMetric] :
                   \A r1, r2 \in R : r1.InterfaceLUID = r2.InterfaceLUID => r1 = r2 } }

BaseInputs ==
  [guidOK : BOOLEAN, v4 : {"ok", "ERROR_NOT_FOUND", "error"}, v6 : {"ok", "error"},
   ifrows : IfTables,
   dns : { (tsLUID :> <<"100.100.100.100">>) @@ d : d \in [OtherLUIDs -> ResolverLists] },
   dnsFails : {{}, {"eth"}, {"wifi"}}]

NoResolvers == [resolvers |-> <<>>, err |-> "nil"]

\* the candidates: connected, and not the Tailscale interface
Candidates_WithTailscale(ifrows) == { r \in ifrows : r.Connected }

Candidates(ifrows) == { r \in ifrows : r.Connected /\ r.InterfaceLUID # tsLUID }

\* sort.Slice by metric: every order of the candidates in which the metric
\* never decreases (the sort is not stable)
SortedByMetric(cands) ==
  { q \in [1..Cardinality(cands) -> cands] :
      /\ \A i, j \in DOMAIN q : i < j => (q[i] # q[j] /\ q[i].Metric <= q[j].Metric) }

\* the ipLoop of one candidate: unmapped, site-local resolvers skipped
NotSiteLocal(ip) == ip \notin siteLocalResolvers

WithoutSiteLocal(ips) == SelectSeq([i \in DOMAIN ips |-> Unmap(ips[i])], NotSiteLocal)

\* the loop over the sorted candidates, from candidate k on
RECURSIVE FirstWithResolvers(_, _, _)
FirstWithResolvers(in, order, k) ==
  IF k > Len(order) THEN NoResolvers
  ELSE IF order[k].InterfaceLUID \in in.dnsFails
    THEN [resolvers |-> <<>>, err |-> "DNS error"]
  ELSE LET resolvers == WithoutSiteLocal(in.dns[order[k].InterfaceLUID]) IN
    IF Len(resolvers) > 0 THEN [resolvers |-> resolvers, err |-> "nil"]
    ELSE FirstWithResolvers(in, order, k + 1)

\* getBasePrimaryResolver on the host in, where sort.Slice produced order
getBasePrimaryResolver(in, order) ==
  IF ~in.guidOK THEN [resolvers |-> <<>>, err |-> "GUID error"]
  ELSE IF in.v4 = "error" \/ (in.v4 = "ERROR_NOT_FOUND" /\ in.v6 = "error")
    THEN [resolvers |-> <<>>, err |-> "interface table error"]
  ELSE IF Candidates(in.ifrows) = {} THEN NoResolvers
  ELSE FirstWithResolvers(in, order, 1)

NoBaseCall ==
  [done |-> FALSE,
   in |-> [guidOK |-> TRUE, v4 |-> "ok", v6 |-> "ok",
           ifrows |-> {[InterfaceLUID |-> tsLUID, Connected |-> TRUE, Metric |-> 1]},
           dns |-> (tsLUID :> <<"100.100.100.100">>) @@ [l \in OtherLUIDs |-> <<>>],
           dnsFails |-> {}],
   out |-> NoResolvers]

Uploaders == {1, 2}

MetricNames == {"a", "c"}

NoUploads ==
  [mu |-> 0,
   g |-> [gr \in Uploaders |-> [pc |-> "idle", body |-> <<>>, i |-> 1, status |-> 0]],
   created |-> [n \in MetricNames |-> 0],
   added |-> [n \in MetricNames |-> 0]]

\* go func() { ... }(): nothing run yet
NewTask(call) == [call |-> call, pc |-> "registerdns", ran |-> <<>>]

NoTasks == [rets |-> <<>>, tasks |-> <<>>]

\* the maxWait values: negative, zero and positive
MaxWaits == (0 - 1)..MaxWait

\* what try returns
TryResults == {"nil", "not yet", "timeout"}

IdleWait ==
  [pc |-> "idle", maxWait |-> 0, now |-> 0, deadline |-> 0, err |-> "nil",
   tries |-> <<>>, ret |-> "nil"]

InitIdleAux == wf = IdleWait /\ tk = NoTasks /\ upl = NoUploads /\ bp = NoBaseCall

(***************************************************************************)
(* State.                                                                  *)
(*   h        the Handler serving the connection                           *)
(*   prefs    the backend's preferences                                    *)
(*   metrics  the client-metric registry                                   *)
(*   pc       "idle" (no request), "copying" (serveDial waits on errc),    *)
(*            "done" (the handler has returned)                            *)
(*   req, env the request being served and its environment outcomes        *)
(*   res      the handler state of the request (response, calls, logs...)  *)
(*   pre      the backend state when the request arrived                   *)
(*   conn     whether the handler still holds reqConn / outConn open       *)
(*   errc     the buffer of the error channel                              *)
(*   g, cerr  position and result of the two copy goroutines: "up" is      *)
(*            io.Copy(outConn, reqConn), "down" is io.Copy(reqConn,outConn)*)
(*   chunk    the bytes a copy loop has read and not yet written           *)
(*   net      the byte streams: brw (held by the hijacked bufio.Reader),   *)
(*            raw (in the client socket), out (delivered to the remote),   *)
(*            fromRemote (in the remote socket), toClient (delivered to    *)
(*            the client), the counts sent so far and who has closed       *)
(***************************************************************************)
VARIABLES h, prefs, metrics, pc, req, env, res, pre, conn, errc, g, cerr, chunk, net

vars == <<h, prefs, metrics, pc, req, env, res, pre, conn, errc, g, cerr, chunk, net,
          host, mgr, dlast, ncalls, conc, fake, lastSet, wf, tk, upl, bp>>

Min(a, b) == IF a < b THEN a ELSE b

Take(s, k) == SubSeq(s, 1, k)

Drop(s, k) == SubSeq(s, k + 1, Len(s))

IsPrefix(s, t) == Len(s) <= Len(t) /\ s = SubSeq(t, 1, Len(s))

\* what the client sends after its request headers, what the remote sends
ClientStream == [i \in 1..MaxBytes |-> i]

RemoteStream == [i \in 1..MaxDown |-> 100 + i]

Metrics0 ==
  [n \in {"a", "c"} |->
     IF n = "c" THEN [reg |-> "code", kind |-> "counter", value |-> 0]
     ELSE [reg |-> "none", kind |-> "", value |-> 0]]

NoPipe ==
  [conn |-> [req |-> FALSE, out |-> FALSE], errc |-> <<>>,
   g |-> [up |-> "none", down |-> "none"], cerr |-> [up |-> "", down |-> ""],
   chunk |-> [up |-> <<>>, down |-> <<>>],
   net |-> [brw |-> <<>>, raw |-> <<>>, out |-> <<>>, fromRemote |-> <<>>,
            toClient |-> <<>>, sent |-> 0, downSent |-> 0,
            clientClosed |-> FALSE, remoteClosed |-> FALSE]]

\* the pipe when serveDial has started its two goroutines
StartPipe(e) ==
  [NoPipe EXCEPT !.conn = [req |-> TRUE, out |-> TRUE],
                 !.g = [up |-> "read", down |-> "read"],
                 !.net.brw = Take(ClientStream, e.buffered),
                 !.net.raw = SubSeq(ClientStream, e.buffered + 1, e.sent),
                 !.net.sent = e.sent]

SetPipe(p) ==
  /\ conn' = p.conn /\ errc' = p.errc /\ g' = p.g /\ cerr' = p.cerr
  /\ chunk' = p.chunk /\ net' = p.net

InitAPI ==
  /\ h \in Handlers
  /\ prefs \in 0..MaxPrefs
  /\ metrics = Metrics0
  /\ pc = "idle"
  /\ req = R0 /\ env = E0
  /\ res = NewState(prefs, metrics)
  /\ pre = [prefs |-> prefs, metrics |-> metrics]
  /\ conn = NoPipe.conn /\ errc = NoPipe.errc /\ g = NoPipe.g /\ cerr = NoPipe.cerr
  /\ chunk = NoPipe.chunk /\ net = NoPipe.net

Init == InitAPI /\ InitIdleDNS /\ InitIdleManager /\ InitIdleAux

(***************************************************************************)
(* ServeHTTP on one request, up to the handler's return or, for /dial, up  *)
(* to the point where it waits on errc with both goroutines started.       *)
(***************************************************************************)
Outcome(hd, r, e, prefs0, metrics0) ==
  LET st == ServeHTTP(hd, r, e, NewState(prefs0, metrics0))
  IN IF st.pipe THEN st ELSE [st EXCEPT !.w = FinishRequest(@)]

Serve(r, e) ==
  /\ LET fin == Outcome(h, r, e, prefs, metrics)
     IN /\ \A n \in DOMAIN fin.metrics : fin.metrics[n].value <= MaxValue
        /\ req' = r /\ env' = e
        /\ res' = fin
        /\ prefs' = fin.prefs
        /\ metrics' = fin.metrics
        /\ pre' = [prefs |-> prefs, metrics |-> metrics]
        /\ pc' = IF fin.pipe THEN "copying" ELSE "done"
        /\ SetPipe(IF fin.pipe THEN StartPipe(e) ELSE NoPipe)
  /\ UNCHANGED h
  /\ UNCHANGED <<dnsVars, cmVars, auxVars>>

ServeRequest == pc = "idle" /\ \E r \in Requests : \E e \in Envs(r) : Serve(r, e)

ServeDialRequest == pc = "idle" /\ \E r \in DialRequests : \E e \in Envs(r) : Serve(r, e)

\* the next request of the connection is taken up once the handler has
\* returned; a hijacked connection has left the server and gets none
NextRequest ==
  /\ pc = "done"
  /\ ~res.w.hijacked
  /\ pc' = "idle"
  /\ req' = R0 /\ env' = E0
  /\ res' = NewState(prefs, metrics)
  /\ pre' = [prefs |-> prefs, metrics |-> metrics]
  /\ SetPipe(NoPipe)
  /\ UNCHANGED <<h, prefs, metrics>>
  /\ UNCHANGED <<dnsVars, cmVars, auxVars>>

(***************************************************************************)
(* The hijacked pipe of serveDial.                                         *)
(***************************************************************************)
\* drainBufConn.Read: from the buffered reader as long as it holds bytes,
\* from the connection afterwards
DrainBufConnSource(n) == IF n.brw # <<>> THEN "brw" ELSE "raw"

\* reqConn.Read, reqConn being what serveDial made of the hijacked connection
reqConnSource(drain, n) == IF drain THEN DrainBufConnSource(n) ELSE "raw"

\* one src.Read of io.Copy(outConn, reqConn)
CopyUpRead ==
  /\ g.up = "read"
  /\ IF ~conn.req
       THEN /\ g' = [g EXCEPT !.up = "send"]
            /\ cerr' = [cerr EXCEPT !.up = "use of closed network connection"]
            /\ UNCHANGED <<chunk, net>>
       ELSE LET src == reqConnSource(res.drain, net) IN
         IF net[src] # <<>>
           THEN /\ \E k \in 1..Min(MaxChunk, Len(net[src])) :
                     /\ chunk' = [chunk EXCEPT !.up = Take(net[src], k)]
                     /\ net' = [net EXCEPT ![src] = Drop(net[src], k)]
                /\ g' = [g EXCEPT !.up = "write"]
                /\ UNCHANGED cerr
           ELSE /\ net.clientClosed
                /\ g' = [g EXCEPT !.up = "send"]
                /\ cerr' = [cerr EXCEPT !.up = "nil"]
                /\ UNCHANGED <<chunk, net>>
  /\ UNCHANGED <<h, prefs, metrics, pc, req, env, res, pre, conn, errc>>
  /\ UNCHANGED <<dnsVars, cmVars, auxVars>>

\* one dst.Write of io.Copy(outConn, reqConn)
CopyUpWrite ==
  /\ g.up = "write"
  /\ IF ~conn.out \/ net.remoteClosed
       THEN /\ g' = [g EXCEPT !.up = "send"]
            /\ cerr' = [cerr EXCEPT !.up = "write error"]
            /\ UNCHANGED net
       ELSE /\ net' = [net EXCEPT !.out = @ \o chunk.up]
            /\ g' = [g EXCEPT !.up = "read"]
            /\ UNCHANGED cerr
  /\ chunk' = [chunk EXCEPT !.up = <<>>]
  /\ UNCHANGED <<h, prefs, metrics, pc, req, env, res, pre, conn, errc>>
  /\ UNCHANGED <<dnsVars, cmVars, auxVars>>

\* one src.Read of io.Copy(reqConn, outConn)
CopyDownRead ==
  /\ g.down = "read"
  /\ IF ~conn.out
       THEN /\ g' = [g EXCEPT !.down = "send"]
            /\ cerr' = [cerr EXCEPT !.down = "use of closed network connection"]
            /\ UNCHANGED <<chunk, net>>
       ELSE IF net.fromRemote # <<>>
           THEN /\ \E k \in 1..Min(MaxChunk, Len(net.fromRemote)) :
                     /\ chunk' = [chunk EXCEPT !.down = Take(net.fromRemote, k)]
                     /\ net' = [net EXCEPT !.fromRemote = Drop(@, k)]
                /\ g' = [g EXCEPT !.down = "write"]
                /\ UNCHANGED cerr
           ELSE /\ net.remoteClosed
                /\ g' = [g EXCEPT !.down = "send"]
                /\ cerr' = [cerr EXCEPT !.down = "nil"]
                /\ UNCHANGED <<chunk, net>>
  /\ UNCHANGED <<h, prefs, metrics, pc, req, env, res, pre, conn, errc>>
  /\ UNCHANGED <<dnsVars, cmVars, auxVars>>

\* one dst.Write of io.Copy(reqConn, outConn)
CopyDownWrite ==
  /\ g.down = "write"
  /\ IF ~conn.req \/ net.clientClosed
       THEN /\ g' = [g EXCEPT !.down = "send"]
            /\ cerr' = [cerr EXCEPT !.down = "write error"]
            /\ UNCHANGED net
       ELSE /\ net' = [net EXCEPT !.toClient = @ \o chunk.down]
            /\ g' = [g EXCEPT !.down = "read"]
            /\ UNCHANGED cerr
  /\ chunk' = [chunk EXCEPT !.down = <<>>]
  /\ UNCHANGED <<h, prefs, metrics, pc, req, env, res, pre, conn, errc>>
  /\ UNCHANGED <<dnsVars, cmVars, auxVars>>

\* serveDial after <-errc: it returns and its deferred Closes run
serveDialReturn(st) == Close(Close(st, "reqConn"), "outConn")

\* errc <- err of either goroutine: into the buffer when there is room; on
\* an unbuffered channel only by handing the value to the waiting handler
GoSend(id) ==
  /\ g[id] = "send"
  /\ IF ErrcCap = 0
       THEN /\ pc = "copying"
            /\ pc' = "done"
            /\ conn' = [req |-> FALSE, out |-> FALSE]
            /\ res' = serveDialReturn(res)
            /\ UNCHANGED errc
       ELSE /\ Len(errc) < ErrcCap
            /\ errc' = Append(errc, cerr[id])
            /\ UNCHANGED <<pc, conn, res>>
  /\ g' = [g EXCEPT ![id] = "exit"]
  /\ UNCHANGED <<h, prefs, metrics, req, env, pre, cerr, chunk, net>>
  /\ UNCHANGED <<dnsVars, cmVars, auxVars>>

GoSendUp == GoSend("up")

GoSendDown == GoSend("down")

\* <-errc in serveDial, then the return
HandlerRecv ==
  /\ pc = "copying"
  /\ errc # <<>>
  /\ errc' = Tail(errc)
  /\ pc' = "done"
  /\ conn' = [req |-> FALSE, out |-> FALSE]
  /\ res' = serveDialReturn(res)
  /\ UNCHANGED <<h, prefs, metrics, req, env, pre, g, cerr, chunk, net>>
  /\ UNCHANGED <<dnsVars, cmVars, auxVars>>

\* the peers of the pipe
ClientSend ==
  /\ conn.req /\ ~net.clientClosed /\ net.sent < MaxBytes
  /\ net' = [net EXCEPT !.raw = Append(@, ClientStream[net.sent + 1]), !.sent = @ + 1]
  /\ UNCHANGED <<h, prefs, metrics, pc, req, env, res, pre, conn, errc, g, cerr, chunk>>
  /\ UNCHANGED <<dnsVars, cmVars, auxVars>>

ClientClose ==
  /\ conn.req /\ ~net.clientClosed
  /\ net' = [net EXCEPT !.clientClosed = TRUE]
  /\ UNCHANGED <<h, prefs, metrics, pc, req, env, res, pre, conn, errc, g, cerr, chunk>>
  /\ UNCHANGED <<dnsVars, cmVars, auxVars>>

RemoteSend ==
  /\ conn.out /\ ~net.remoteClosed /\ net.downSent < MaxDown
  /\ net' = [net EXCEPT !.fromRemote = Append(@, RemoteStream[net.downSent + 1]),
                        !.downSent = @ + 1]
  /\ UNCHANGED <<h, prefs, metrics, pc, req, env, res, pre, conn, errc, g, cerr, chunk>>
  /\ UNCHANGED <<dnsVars, cmVars, auxVars>>

RemoteClose ==
  /\ conn.out /\ ~net.remoteClosed
  /\ net' = [net EXCEPT !.remoteClosed = TRUE]
  /\ UNCHANGED <<h, prefs, metrics, pc, req, env, res, pre, conn, errc, g, cerr, chunk>>
  /\ UNCHANGED <<dnsVars, cmVars, auxVars>>

Pipe ==
  \/ CopyUpRead \/ CopyUpWrite \/ CopyDownRead \/ CopyDownWrite
  \/ GoSendUp \/ GoSendDown \/ HandlerRecv
  \/ ClientSend \/ ClientClose \/ RemoteSend \/ RemoteClose

(***************************************************************************)
(* Spec: the request/response behaviour of a connection under every        *)
(* Handler and every request.  SpecDial: a connection that is used for     *)
(* /dial, with the hijacked pipe run step by step.                         *)
(***************************************************************************)
Next == ServeRequest \/ NextRequest

Spec == Init /\ [][Next]_vars

InitDial ==
  /\ Init
  /\ h = [b |-> TRUE, RequiredPassword |-> "", PermitRead |-> FALSE,
          PermitWrite |-> FALSE, PermitCert |-> FALSE]
  /\ prefs = 0

NextDial == ServeDialRequest \/ NextRequest \/ Pipe

SpecDial == InitDial /\ [][NextDial]_vars

Fairness ==
  /\ WF_vars(CopyUpRead) /\ WF_vars(CopyUpWrite)
  /\ WF_vars(CopyDownRead) /\ WF_vars(CopyDownWrite)
  /\ WF_vars(GoSendUp) /\ WF_vars(GoSendDown) /\ WF_vars(HandlerRecv)

FairSpecDial == SpecDial /\ Fairness

(***************************************************************************)
(* SpecDNS: the calls the backend makes on one windowsManager, on every    *)
(* host, with registry operations that can fail.                           *)
(***************************************************************************)
apiVars == <<h, prefs, metrics, pc, req, env, res, pre, conn, errc, g, cerr, chunk, net>>

InitDNS ==
  /\ InitAPI
  /\ h = [b |-> TRUE, RequiredPassword |-> "", PermitRead |-> FALSE,
          PermitWrite |-> FALSE, PermitCert |-> FALSE]
  /\ prefs = 0
  /\ host \in InitialHosts
  /\ mgr \in { NewOSConfigurator(w) : w \in BOOLEAN }
  \* the NRPT rules are Tailscale's own, written through the NRPT database
  /\ mgr.nrptDB \/ host.nrpt = NoValue
  /\ dlast = NoCall
  /\ ncalls = 0
  /\ conc = NoConc
  /\ InitIdleManager
  /\ InitIdleAux

Returned(d, op, cfg) ==
  [op |-> op, cfg |-> cfg, before |-> host, err |-> d.err, logs |-> d.logs,
   trace |-> d.trace, bg |-> d.bg]

CallSetDNS ==
  /\ ~mgr.closed /\ ncalls < MaxCalls
  /\ \E cfg \in Configs : \E f \in Faults :
       LET d == SetDNS(mgr, cfg, host, f) IN
         /\ host' = d.host
         /\ dlast' = Returned(d, "SetDNS", cfg)
  /\ ncalls' = ncalls + 1
  /\ UNCHANGED <<mgr, conc, apiVars, cmVars, auxVars>>

\* Close releasing the NRPT database only when SetDNS returned nil
CallClose_KeepOnError ==
  /\ ~mgr.closed /\ ncalls < MaxCalls
  /\ \E f \in Faults :
       LET d == SetDNS(mgr, EmptyConfig, host, f) IN
         /\ host' = d.host
         /\ dlast' = Returned(d, "Close", EmptyConfig)
         /\ mgr' = [mgr EXCEPT !.closed = (d.err = "nil")]
  /\ ncalls' = ncalls + 1
  /\ UNCHANGED <<conc, apiVars, cmVars, auxVars>>

\* Close: SetDNS(OSConfig{}), then the NRPT database is closed
CallClose ==
  /\ ~mgr.closed /\ ncalls < MaxCalls
  /\ \E f \in Faults :
       LET d == SetDNS(mgr, EmptyConfig, host, f) IN
         /\ host' = d.host
         /\ dlast' = Returned(d, "Close", EmptyConfig)
  /\ ncalls' = ncalls + 1
  /\ mgr' = [mgr EXCEPT !.closed = TRUE]
  /\ UNCHANGED <<conc, apiVars, cmVars, auxVars>>

NextDNS == CallSetDNS \/ CallClose

SpecDNS == InitDNS /\ [][NextDNS]_vars

(***************************************************************************)
(* SpecConc: two goroutines call SetDNS or Close on the same windowsManager *)
(* at the same time.  windowsManager has no lock, so the registry and NRPT *)
(* writes of the two calls are taken one at a time from either call.       *)
(***************************************************************************)
\* the configurations of the concurrent calls, and the hosts they start on
ConcConfigs == { c \in Configs : Len(c.Nameservers) # 1 }

ConcHosts == { hs \in InitialHosts : hs.reg[ipv4RegBase] = hs.reg[ipv6RegBase] }

Mutating(t) == t.op \in {"set", "del", "nrptWrite", "nrptDel"}

\* the writes of a SetDNS(cfg) whose operations all succeed, in the order
\* the code makes them
Writes(m, cfg) == SelectSeq(SetDNS(m, cfg, CleanHost, NoFault).trace, Mutating)

ApplyWrite(hs, t) ==
  IF t.key = "nrpt" THEN [hs EXCEPT !.nrpt = t.val]
  ELSE [hs EXCEPT !.reg[t.key][t.name] = t.val]

InitConc ==
  /\ InitAPI
  /\ h = [b |-> TRUE, RequiredPassword |-> "", PermitRead |-> FALSE,
          PermitWrite |-> FALSE, PermitCert |-> FALSE]
  /\ prefs = 0
  /\ host \in ConcHosts
  /\ mgr \in { NewOSConfigurator(w) : w \in BOOLEAN }
  /\ mgr.nrptDB \/ host.nrpt = NoValue
  /\ dlast = NoCall
  /\ ncalls = 0
  /\ conc = [before |-> host, call |-> [gr \in Goroutines |-> IdleCall]]
  /\ InitIdleManager
  /\ InitIdleAux

\* a goroutine enters SetDNS(cfg), or Close, which enters SetDNS(OSConfig{})
GoCall(gr) ==
  /\ conc.call[gr].st = "idle" /\ ~mgr.closed
  /\ \E c \in [op : {"SetDNS"}, cfg : ConcConfigs] \cup [op : {"Close"}, cfg : {EmptyConfig}] :
       conc' = [conc EXCEPT !.call[gr] = [st |-> "running", op |-> c.op, cfg |-> c.cfg, i |-> 1]]
  /\ UNCHANGED <<host, mgr, dlast, ncalls, apiVars, cmVars, auxVars>>

\* the goroutine's call makes its next write
StepCall(gr) ==
  LET c == conc.call[gr] IN
    /\ c.st = "running" /\ c.i <= Len(Writes(mgr, c.cfg))
    /\ host' = ApplyWrite(host, Writes(mgr, c.cfg)[c.i])
    /\ conc' = [conc EXCEPT !.call[gr].i = @ + 1]
    /\ UNCHANGED <<mgr, dlast, ncalls, apiVars, cmVars, auxVars>>

\* the call returns; Close then closes the NRPT database
ReturnCall(gr) ==
  LET c == conc.call[gr] IN
    /\ c.st = "running" /\ c.i > Len(Writes(mgr, c.cfg))
    /\ conc' = [conc EXCEPT !.call[gr].st = "returned"]
    /\ mgr' = IF c.op = "Close" THEN [mgr EXCEPT !.closed = TRUE] ELSE mgr
    /\ UNCHANGED <<host, dlast, ncalls, apiVars, cmVars, auxVars>>

NextConc == \E gr \in Goroutines : GoCall(gr) \/ StepCall(gr) \/ ReturnCall(gr)

SpecConc == InitConc /\ [][NextConc]_vars

(***************************************************************************)
(* SpecCompile: Set called once on a new Manager, for every policy, on an  *)
(* OSConfigurator with or without split DNS and with either base config.   *)
(***************************************************************************)
InitCompile ==
  /\ InitAPI
  /\ h = [b |-> TRUE, RequiredPassword |-> "", PermitRead |-> FALSE,
          PermitWrite |-> FALSE, PermitCert |-> FALSE]
  /\ prefs = 0
  /\ InitIdleDNS
  /\ InitIdleAux
  /\ fake \in { NewFake(split, bs) : split \in BOOLEAN, bs \in BaseConfigs }
  /\ lastSet = [done |-> FALSE, in |-> EmptyPolicy]

CallManagerSet ==
  /\ ~lastSet.done
  /\ \E c \in Policies :
       /\ fake' = ManagerSet(fake, c)
       /\ lastSet' = [done |-> TRUE, in |-> c]
  /\ UNCHANGED <<dnsVars, apiVars, auxVars>>

SpecCompile == InitCompile /\ [][CallManagerSet]_vars

(***************************************************************************)
(* SpecRes: a connection with write access used for the requests that      *)
(* acquire a resource (/dial, /files/, /id-token), the pipe run step by    *)
(* step.                                                                   *)
(***************************************************************************)
InitRes ==
  /\ Init
  /\ h = [b |-> TRUE, RequiredPassword |-> "", PermitRead |-> TRUE,
          PermitWrite |-> TRUE, PermitCert |-> FALSE]
  /\ prefs = 0

ResourceRequests ==
  DialRequests
  \cup { r \in Requests : r.path \in {"/localapi/v0/files/", "/localapi/v0/id-token"} }

ServeResourceRequest ==
  pc = "idle" /\ \E r \in ResourceRequests : \E e \in Envs(r) : Serve(r, e)

NextRes == ServeResourceRequest \/ NextRequest \/ Pipe

SpecRes == InitRes /\ [][NextRes]_vars

(***************************************************************************)
(* SpecWait: one call of WaitFor, stepped through its loop.  The clock     *)
(* moves by zero ticks or one between two readings that follow each other. *)
(***************************************************************************)
InitWait ==
  /\ InitAPI
  /\ h = [b |-> TRUE, RequiredPassword |-> "", PermitRead |-> FALSE,
          PermitWrite |-> FALSE, PermitCert |-> FALSE]
  /\ prefs = 0
  /\ InitIdleDNS
  /\ InitIdleManager
  /\ InitIdleAux

\* deadline := time.Now().Add(maxWait); var err error
WaitForCall ==
  /\ wf.pc = "idle"
  /\ \E m \in MaxWaits :
       wf' = [wf EXCEPT !.pc = "test", !.maxWait = m, !.deadline = wf.now + m]
  /\ UNCHANGED <<apiVars, dnsVars, cmVars, tk, upl, bp>>

\* for time.Now().Before(deadline); return err when the test fails
WaitForTest ==
  /\ wf.pc = "test"
  /\ \E dt \in 0..1 :
       LET now == wf.now + dt IN
         wf' = IF now < wf.deadline
                 THEN [wf EXCEPT !.now = now, !.pc = "try"]
                 ELSE [wf EXCEPT !.now = now, !.pc = "returned", !.ret = wf.err]
  /\ UNCHANGED <<apiVars, dnsVars, cmVars, tk, upl, bp>>

\* err = try(); if err == nil { break }; return err after the break
WaitForTry ==
  /\ wf.pc = "try"
  /\ Len(wf.tries) < MaxTries
  /\ \E e \in TryResults, dt \in 0..1 :
       wf' = IF e = "nil"
               THEN [wf EXCEPT !.now = @ + dt, !.tries = Append(@, e), !.err = e,
                               !.pc = "returned", !.ret = e]
               ELSE [wf EXCEPT !.now = @ + dt, !.tries = Append(@, e), !.err = e,
                               !.pc = "backoff"]
  /\ UNCHANGED <<apiVars, dnsVars, cmVars, tk, upl, bp>>

\* bo.BackOff(context.Background(), err): sleeps, then back to the test
WaitForBackOff ==
  /\ wf.pc = "backoff"
  /\ \E dt \in 0..1 : wf' = [wf EXCEPT !.now = @ + dt, !.pc = "test"]
  /\ UNCHANGED <<apiVars, dnsVars, cmVars, tk, upl, bp>>

(***************************************************************************)
(* SpecTask: SetDNS called on a clean host, and the goroutines it starts   *)
(* running their two commands, each of which succeeds or fails.            *)
(***************************************************************************)
InitTask == InitDNS /\ host = CleanHost

\* SetDNS up to its return, the go statement included
SetDNSAndGo ==
  /\ ~mgr.closed /\ ncalls < MaxCalls
  /\ \E cfg \in Configs : \E f \in Faults :
       LET d == SetDNS(mgr, cfg, host, f) IN
         /\ host' = d.host
         /\ dlast' = Returned(d, "SetDNS", cfg)
         /\ tk' = [rets  |-> Append(tk.rets, d.err),
                   tasks |-> tk.tasks \o [i \in 1..d.bg |-> NewTask(Len(tk.rets) + 1)]]
  /\ ncalls' = ncalls + 1
  /\ UNCHANGED <<mgr, conc, apiVars, cmVars, wf, upl, bp>>

\* the goroutine giving up when ipconfig /registerdns fails
RunIpconfig_StopOnError ==
  /\ \E i \in DOMAIN tk.tasks : \E ok \in BOOLEAN :
       /\ tk.tasks[i].pc # "done"
       /\ tk' = [tk EXCEPT !.tasks[i] =
                   [@ EXCEPT !.ran = Append(@, [cmd |-> tk.tasks[i].pc, ok |-> ok]),
                             !.pc = IF tk.tasks[i].pc = "registerdns" /\ ok
                                      THEN "flushdns" ELSE "done"]]
  /\ UNCHANGED <<dnsVars, apiVars, cmVars, wf, upl, bp>>

\* cmd.Run() of the goroutine's next command: its error is logged and the
\* goroutine goes on
RunIpconfig ==
  /\ \E i \in DOMAIN tk.tasks : \E ok \in BOOLEAN :
       /\ tk.tasks[i].pc # "done"
       /\ tk' = [tk EXCEPT !.tasks[i] =
                   [@ EXCEPT !.ran = Append(@, [cmd |-> tk.tasks[i].pc, ok |-> ok]),
                             !.pc = IF tk.tasks[i].pc = "registerdns"
                                      THEN "flushdns" ELSE "done"]]
  /\ UNCHANGED <<dnsVars, apiVars, cmVars, wf, upl, bp>>

NextTask == SetDNSAndGo \/ RunIpconfig

SpecTask == InitTask /\ [][NextTask]_vars

(***************************************************************************)
(* SpecUpload: two POST /upload-client-metrics requests served by their    *)
(* own goroutines, stepped through serveUploadClientMetrics on the shared  *)
(* registry.                                                               *)
(***************************************************************************)
InitUpload == InitWait

\* the variables of the API other than the registry
apiRest == <<h, prefs, pc, req, env, res, pre, conn, errc, g, cerr, chunk, net>>

\* the request arrives and its body is decoded
UploadArrive(gr) ==
  /\ upl.g[gr].pc = "idle"
  /\ \E ms \in UploadBodies : upl' = [upl EXCEPT !.g[gr].pc = "lock", !.g[gr].body = ms]
  /\ UNCHANGED <<metrics, apiRest, dnsVars, cmVars, wf, tk, bp>>

\* Lock that never waits
UploadLock_NoExclusion(gr) ==
  /\ upl.g[gr].pc = "lock"
  /\ upl' = [upl EXCEPT !.mu = gr, !.g[gr].pc = "loop"]
  /\ UNCHANGED <<metrics, apiRest, dnsVars, cmVars, wf, tk, bp>>

\* metricsMu.Lock()
UploadLock(gr) ==
  /\ upl.g[gr].pc = "lock" /\ upl.mu = 0
  /\ upl' = [upl EXCEPT !.mu = gr, !.g[gr].pc = "loop"]
  /\ UNCHANGED <<metrics, apiRest, dnsVars, cmVars, wf, tk, bp>>

\* one entry of the loop up to the Add on a known name, the replies that
\* end the request, or the decision to create the metric
UploadEntry(gr) ==
  /\ upl.g[gr].pc = "loop"
  /\ LET t == upl.g[gr] IN
       IF t.i > Len(t.body)
         THEN /\ upl' = [upl EXCEPT !.g[gr].pc = "unlock", !.g[gr].status = StatusOK]
              /\ UNCHANGED metrics
       ELSE LET m == t.body[t.i] IN
         IF metrics[m.name].reg = "upload"
           THEN /\ metrics' = MetricAdd(metrics, m.name, m.value)
                /\ upl' = [upl EXCEPT !.g[gr].i = @ + 1, !.added[m.name] = @ + m.value]
         ELSE IF HasPublished(metrics, m.name) \/ m.type \notin {"counter", "gauge"}
           THEN /\ upl' = [upl EXCEPT !.g[gr].pc = "unlock", !.g[gr].status = StatusBadRequest]
                /\ UNCHANGED metrics
         ELSE /\ upl' = [upl EXCEPT !.g[gr].pc = "create"]
              /\ UNCHANGED metrics
  /\ UNCHANGED <<apiRest, dnsVars, cmVars, wf, tk, bp>>

\* NewCounter or NewGauge, metrics[m.Name] = metric, metric.Add
UploadCreate(gr) ==
  /\ upl.g[gr].pc = "create"
  /\ LET m == upl.g[gr].body[upl.g[gr].i] IN
       /\ metrics' = MetricAdd(NewMetric(metrics, m.name, m.type), m.name, m.value)
       /\ upl' = [upl EXCEPT !.g[gr].pc = "loop", !.g[gr].i = @ + 1,
                             !.created[m.name] = @ + 1, !.added[m.name] = @ + m.value]
  /\ UNCHANGED <<apiRest, dnsVars, cmVars, wf, tk, bp>>

\* the deferred metricsMu.Unlock()
UploadUnlock(gr) ==
  /\ upl.g[gr].pc = "unlock"
  /\ upl' = [upl EXCEPT !.mu = 0, !.g[gr].pc = "done"]
  /\ UNCHANGED <<metrics, apiRest, dnsVars, cmVars, wf, tk, bp>>

NextUpload ==
  \E gr \in Uploaders :
    UploadArrive(gr) \/ UploadLock(gr) \/ UploadEntry(gr) \/ UploadCreate(gr) \/ UploadUnlock(gr)

SpecUpload == InitUpload /\ [][NextUpload]_vars

(***************************************************************************)
(* SpecBase: getBasePrimaryResolver called once, on every host of          *)
(* BaseInputs.                                                             *)
(***************************************************************************)
InitBase ==
  /\ InitAPI
  /\ h = [b |-> TRUE, RequiredPassword |-> "", PermitRead |-> FALSE,
          PermitWrite |-> FALSE, PermitCert |-> FALSE]
  /\ prefs = 0
  /\ InitIdleDNS
  /\ InitIdleManager
  /\ wf = IdleWait /\ tk = NoTasks /\ upl = NoUploads
  /\ bp \in { [NoBaseCall EXCEPT !.in = in] : in \in BaseInputs }

CallGetBasePrimaryResolver ==
  /\ ~bp.done
  /\ \E order \in SortedByMetric(Candidates(bp.in.ifrows)) :
       bp' = [bp EXCEPT !.done = TRUE, !.out = getBasePrimaryResolver(bp.in, order)]
  /\ UNCHANGED <<apiVars, dnsVars, cmVars, wf, tk, upl>>

SpecBase == InitBase /\ [][CallGetBasePrimaryResolver]_vars

NextWait == WaitForCall \/ WaitForTest \/ WaitForTry \/ WaitForBackOff

SpecWait == InitWait /\ [][NextWait]_vars

(***************************************************************************)
(* Vocabulary of the properties.                                           *)
(***************************************************************************)
\* the request has been taken up (its handler has returned or, for a
\* successful dial, is waiting on the pipe)
Served == pc # "idle"

\* the request passes ServeHTTP's password gate
PasswordOK ==
  h.RequiredPassword = "" \/ (req.auth.ok /\ req.auth.pass = h.RequiredPassword)

ReadPaths ==
  {"/localapi/v0/status", "/localapi/v0/whois", "/localapi/v0/check-ip-forwarding",
   "/localapi/v0/bugreport", "/localapi/v0/file-targets"}

WritePaths ==
  {"/localapi/v0/check-prefs", "/localapi/v0/login-interactive", "/localapi/v0/logout",
   "/localapi/v0/goroutines", "/localapi/v0/profile", "/localapi/v0/metrics",
   "/localapi/v0/debug", "/localapi/v0/set-dns", "/localapi/v0/id-token",
   "/localapi/v0/files/", "/localapi/v0/file-put/"}

\* the minimum capability the handler of a request declares
MinCap(r) ==
  IF r.path \in ReadPaths THEN "read"
  ELSE IF r.path \in WritePaths THEN "write"
  ELSE IF r.path = "/localapi/v0/prefs" THEN (IF r.method = "PATCH" THEN "write" ELSE "read")
  ELSE "none"

Lacks(hd, cap) ==
  \/ cap = "read" /\ ~hd.PermitRead
  \/ cap = "write" /\ ~hd.PermitWrite

BackendUntouched ==
  /\ res.calls = <<>>
  /\ prefs = pre.prefs
  /\ metrics = pre.metrics

\* the request was turned away for a missing capability: 403 before any
\* backend call
CapabilityDenied ==
  /\ res.handler # ""
  /\ res.w.status = StatusForbidden
  /\ res.calls = <<>>

C2_PasswordGate ==
  (Served /\ h.b /\ h.RequiredPassword # "") =>
     /\ ~req.auth.ok =>
          /\ res.w.statusLines = <<StatusUnauthorized>>
          /\ res.handler = "" /\ BackendUntouched
     /\ (req.auth.ok /\ req.auth.pass # h.RequiredPassword) =>
          /\ res.w.statusLines = <<StatusForbidden>>
          /\ res.handler = "" /\ BackendUntouched

C2_Witness ==
  /\ pc = "done" /\ h.b /\ h.RequiredPassword # "" /\ h.PermitWrite
  /\ ~req.auth.ok
  /\ req.path = "/localapi/v0/logout" /\ req.method = "POST"
  /\ res.w.statusLines = <<StatusUnauthorized>>

\* C3: with PermitWrite no read-gated or write-gated handler turns a request
\* away for a missing capability, whatever PermitRead is.
C3_WriteAllowsAll ==
  (Served /\ h.PermitWrite /\ MinCap(req) \in {"read", "write"}) => ~CapabilityDenied

\* C4: a PATCH /prefs answered with a non-2xx status leaves the backend's
\* preferences as they were, and a GET /prefs returns the preferences the
\* backend holds.
C4_FailedPatchKeepsPrefs ==
  /\ (pc = "done" /\ req.path = "/localapi/v0/prefs" /\ req.method = "PATCH"
        /\ res.w.status \notin 200..299) => prefs = pre.prefs
  /\ (pc = "done" /\ req.path = "/localapi/v0/prefs" /\ req.method = "GET"
        /\ res.w.status = StatusOK) =>
          res.w.body = <<[text |-> "prefs", val |-> pre.prefs]>>

C4_Witness ==
  /\ pc = "done" /\ req.path = "/localapi/v0/prefs" /\ req.method = "PATCH"
  /\ res.calls = <<"EditPrefs">> /\ env.berr
  /\ res.w.status = StatusBadRequest
  /\ req.mp # pre.prefs /\ prefs = pre.prefs

\* C5: every request gets exactly one status line; a hijacked connection got
\* the 101 and nothing else before it became the pipe.
C5_OneResponse ==
  Served =>
     /\ Len(res.w.statusLines) = 1
     /\ res.w.hijacked => res.w.statusLines = <<StatusSwitchingProtocols>> /\ res.w.body = <<>>
     /\ res.pipe => res.w.hijacked

\* the upstream body of /id-token fails after the status was relayed
C5_Witness ==
  /\ pc = "done" /\ req.path = "/localapi/v0/id-token"
  /\ res.calls = <<"NetMap", "DoNoiseRequest">> /\ env.copyErr
  /\ res.w.superfluous = 1
  /\ res.w.statusLines = <<env.upStatus>>

\* C6: once one of the two copies has completed, the handler closes both
\* connections and the other copy ends too, its result delivered on errc.
FirstCopyDone == g.up \in {"send", "exit"} \/ g.down \in {"send", "exit"}

TornDown ==
  /\ pc = "done" /\ ~conn.req /\ ~conn.out /\ res.open = {}
  /\ g.up = "exit" /\ g.down = "exit"

C6_DialTeardown == FirstCopyDone ~> TornDown

C6_Witness == res.pipe /\ TornDown /\ Len(errc) = 1

\* C7: what the dialed connection has received is a prefix of what the
\* client sent after its headers, the bytes buffered before the hijack first.
C7_PrefixDelivered == IsPrefix(net.out, ClientStream)

C7_Witness ==
  /\ res.pipe /\ env.buffered > 0 /\ env.buffered < env.sent
  /\ net.out = ClientStream

\* C8: serveDial answers 101 and hijacks only when the dial has succeeded;
\* a request it rejects before gets 405, 400 or 502, no 101 and no hijack.
DialRejected == ~DialReady(req) \/ ~env.hijacker \/ env.berr

C8_DialBeforeUpgrade ==
  (Served /\ res.handler = "serveDial") =>
     /\ (StatusSwitchingProtocols \in {res.w.statusLines[i] : i \in DOMAIN res.w.statusLines}
           \/ res.w.hijacked) => (res.calls = <<"UserDial">> /\ ~env.berr)
     /\ DialRejected =>
          /\ ~res.w.hijacked /\ ~res.pipe
          /\ res.w.statusLines =
               << IF req.method # "POST" THEN StatusMethodNotAllowed
                  ELSE IF ~DialReady(req) \/ ~env.hijacker THEN StatusBadRequest
                  ELSE StatusBadGateway >>

C8_Witness ==
  /\ pc = "done" /\ res.handler = "serveDial" /\ DialReady(req)
  /\ env.berr /\ res.calls = <<"UserDial">>
  /\ res.w.statusLines = <<StatusBadGateway>>

\* C9 as stated: a failure after the hijack (a failed flush, a copy ended by
\* an error) is logged and not surfaced to the client.
CopyFailed == pc = "done" /\ (cerr.up \notin {"", "nil"} \/ cerr.down \notin {"", "nil"})

NotSurfaced ==
  /\ res.w.statusLines = <<StatusSwitchingProtocols>>
  /\ res.w.body = <<>>
  /\ IsPrefix(net.toClient, RemoteStream)

Reachable == env.hijacker /\ ~env.berr /\ ~env.hijackErr /\ ~env.flushErr

WellFormedDial(method) ==
  /\ Served /\ h.b /\ PasswordOK
  /\ req.path = "/localapi/v0/dial" /\ req.method = method
  /\ ContainsUpgrade(req.hdr.connection) /\ req.hdr.upgrade = upgradeProto
  /\ req.hdr.dialHost # "" /\ req.hdr.dialPort # ""

Piped ==
  /\ res.w.statusLines = <<StatusSwitchingProtocols>>
  /\ res.w.sent.upgrade = upgradeProto /\ res.w.sent.connection = "upgrade"
  /\ res.w.hijacked /\ res.pipe /\ res.drain
  /\ g.up # "none" /\ g.down # "none"

C10_PutDial == (WellFormedDial("PUT") /\ Reachable) => Piped

\* C10 amended: it is the POST upgrade request that is answered 101 and gets
\* the pipe, when the transport can be hijacked and the 101 is flushed.
C10_PostDial == (WellFormedDial("POST") /\ Reachable) => Piped

C10_Witness ==
  /\ WellFormedDial("POST") /\ Reachable /\ Piped
  /\ net.out # <<>> /\ net.toClient # <<>>

\* C11: the handlers that declare no minimum capability answer a request the
\* same way under every value of PermitRead, PermitWrite and PermitCert: the
\* response, the backend calls and the backend state after the request are
\* those of the same request served by a Handler that differs only in its
\* capability bits.
NoCapPaths ==
  {"/localapi/v0/dial", "/localapi/v0/ping", "/localapi/v0/derpmap",
   "/localapi/v0/set-expiry-sooner", "/localapi/v0/upload-client-metrics"}

CapVariants(hd) ==
  { [hd EXCEPT !.PermitRead = x, !.PermitWrite = y, !.PermitCert = z] :
      x, y, z \in BOOLEAN }

C11_CapabilityBlind ==
  (Served /\ req.path \in NoCapPaths) =>
     \A h2 \in CapVariants(h) :
        Outcome(h2, req, env, pre.prefs, pre.metrics) = res

C11_Witness ==
  /\ pc = "done" /\ h.b /\ PasswordOK
  /\ ~h.PermitRead /\ ~h.PermitWrite /\ ~h.PermitCert
  /\ req.path = "/localapi/v0/set-expiry-sooner"
  /\ res.calls = <<"SetExpirySooner">> /\ res.w.statusLines = <<StatusOK>>

\* a POST /upload-client-metrics whose body decoded has been answered
UploadServed ==
  /\ pc = "done" /\ res.handler = "serveUploadClientMetrics"
  /\ req.method = "POST" /\ req.body # "bad"

\* the sum of the values the entries of an upload give for a name
RECURSIVE SumFor(_, _)
SumFor(ms, n) ==
  IF ms = <<>> THEN 0
  ELSE (IF Head(ms).name = n THEN Head(ms).value ELSE 0) + SumFor(Tail(ms), n)

EntryNames(ms) == { ms[i].name : i \in DOMAIN ms }

\* C12: an upload is all or nothing: answered with an error it leaves the
\* registered names and every value as they were, answered 200 it has
\* registered every name of its array and added every entry's value.
C12_UploadAtomic ==
  UploadServed =>
     /\ res.w.status # StatusOK => metrics = pre.metrics
     /\ res.w.status = StatusOK =>
          \A n \in DOMAIN metrics :
             /\ n \in EntryNames(req.clientMetrics) => metrics[n].reg # "none"
             /\ metrics[n].value = pre.metrics[n].value + SumFor(req.clientMetrics, n)

\* C13: an entry that names a metric registered through an earlier upload
\* with the other type (counter against gauge) gets an error response and
\* the metric keeps its value.
TypeMismatch(i) ==
  LET m == req.clientMetrics[i] IN
    /\ pre.metrics[m.name].reg = "upload"
    /\ m.type \in {"counter", "gauge"}
    /\ m.type # pre.metrics[m.name].kind

C13_TypeMismatchRejected ==
  UploadServed =>
     \A i \in DOMAIN req.clientMetrics :
        TypeMismatch(i) =>
           /\ res.w.status # StatusOK
           /\ metrics[req.clientMetrics[i].name].value
                = pre.metrics[req.clientMetrics[i].name].value

\* C14: an upload whose entries all name metrics that an earlier upload
\* registered is answered 200 with every value added; an upload with an
\* entry naming a metric published by code is answered 400, and no request
\* ever changes a metric published by code.
C14_UploadedVsPublished ==
  /\ \A n \in DOMAIN metrics : pre.metrics[n].reg = "code" => metrics[n] = pre.metrics[n]
  /\ UploadServed =>
       /\ (\E i \in DOMAIN req.clientMetrics :
              pre.metrics[req.clientMetrics[i].name].reg = "code")
            => res.w.statusLines = <<StatusBadRequest>>
       /\ (\A i \in DOMAIN req.clientMetrics :
              pre.metrics[req.clientMetrics[i].name].reg = "upload")
            => /\ res.w.statusLines = <<StatusOK>>
               /\ \A n \in DOMAIN metrics :
                     metrics[n] = [pre.metrics[n] EXCEPT
                                     !.value = @ + SumFor(req.clientMetrics, n)]

C14_Witness ==
  /\ UploadServed /\ pre.metrics["a"].reg = "upload" /\ pre.metrics["a"].value = 1
  /\ req.clientMetrics # <<>>
  /\ \A i \in DOMAIN req.clientMetrics : req.clientMetrics[i].name = "a"
  /\ res.w.statusLines = <<StatusOK>>
  /\ metrics["a"].value = 2

IDTokenServed == pc = "done" /\ res.handler = "serveIDToken"

UpstreamAsked == \E i \in DOMAIN res.calls : res.calls[i] = "DoNoiseRequest"

UpstreamBody == <<[text |-> "upstream body", val |-> env.upStatus]>>

\* C15 as stated: whenever the upstream request of /id-token returns a
\* response, the caller gets the upstream status and the upstream body.
C15_IDTokenVerbatim ==
  (IDTokenServed /\ UpstreamAsked /\ ~env.berr) =>
     /\ res.w.statusLines = <<env.upStatus>>
     /\ res.w.body = UpstreamBody

\* C15 amended: when the upstream request of /id-token returns a response,
\* the caller gets the upstream status, whatever it is, and the upstream
\* body when that body is copied to its end; when the copy fails the status
\* stays the upstream one and the body is not the upstream body.  Without
\* PermitWrite (403), without a netmap (503) or with an aud that is empty
\* after trimming (400) no upstream request is made.
C15_IDTokenRelay ==
  IDTokenServed =>
     /\ (UpstreamAsked /\ ~env.berr) =>
          /\ res.w.statusLines = <<env.upStatus>>
          /\ ~env.copyErr => res.w.body = UpstreamBody
          /\ env.copyErr => (res.w.body # UpstreamBody /\ res.w.superfluous = 1)
     /\ ~h.PermitWrite =>
          (res.w.statusLines = <<StatusForbidden>> /\ ~UpstreamAsked)
     /\ (h.PermitWrite /\ ~env.netmap) =>
          (res.w.statusLines = <<StatusServiceUnavailable>> /\ ~UpstreamAsked)
     /\ (h.PermitWrite /\ env.netmap /\ TrimSpace(req.form.aud) = "") =>
          (res.w.statusLines = <<StatusBadRequest>> /\ ~UpstreamAsked)
     /\ (h.PermitWrite /\ env.netmap /\ TrimSpace(req.form.aud) # "") => UpstreamAsked

C15_Witness ==
  /\ IDTokenServed /\ UpstreamAsked /\ ~env.berr /\ ~env.copyErr
  /\ env.upStatus = StatusForbidden
  /\ res.w.statusLines = <<StatusForbidden>>
  /\ res.w.body = UpstreamBody

\* the handlers that look at the method, by the status they answer a method
\* they do not accept with in the code, and the methods each one accepts
Paths405 ==
  {"/localapi/v0/debug", "/localapi/v0/prefs", "/localapi/v0/check-prefs",
   "/localapi/v0/set-expiry-sooner", "/localapi/v0/dial",
   "/localapi/v0/upload-client-metrics"}

Paths400 ==
  {"/localapi/v0/login-interactive", "/localapi/v0/logout", "/localapi/v0/file-targets",
   "/localapi/v0/file-put/", "/localapi/v0/set-dns", "/localapi/v0/derpmap",
   "/localapi/v0/ping"}

Accepted(r) ==
  IF r.path = "/localapi/v0/prefs" THEN {"PATCH", "GET", "HEAD"}
  ELSE IF r.path \in {"/localapi/v0/derpmap", "/localapi/v0/file-targets"} THEN {"GET"}
  ELSE IF r.path = "/localapi/v0/files/"
    THEN (IF r.suffix = "" THEN {"GET"} ELSE {"GET", "DELETE"})
  ELSE IF r.path = "/localapi/v0/file-put/" THEN {"PUT"}
  ELSE {"POST"}

\* the request is past the password and capability gates of its handler
PastGates == Served /\ h.b /\ PasswordOK /\ ~Lacks(h, MinCap(req))

WrongMethod ==
  /\ PastGates
  /\ req.path \in Paths405 \cup Paths400 \cup {"/localapi/v0/files/"}
  /\ req.method \notin Accepted(req)

\* C16 as stated: past the capability gate, every handler that accepts only
\* specific methods answers any other method with 405.
C16_WrongMethod405 == WrongMethod => res.w.statusLines = <<StatusMethodNotAllowed>>

\* C16 amended: a method the handler does not accept is answered 405 by
\* /debug, /prefs, /check-prefs, /set-expiry-sooner, /dial and
\* /upload-client-metrics and 400 by /login-interactive, /logout, the
\* listing /files/, /file-targets, /file-put/, /set-dns, /derpmap and /ping,
\* in both cases without a backend call; /files/<name> checks no method and
\* opens the file for every method other than DELETE.
C16_WrongMethodRejected ==
  /\ (WrongMethod /\ req.path \in Paths405) =>
       (res.w.statusLines = <<StatusMethodNotAllowed>> /\ BackendUntouched)
  /\ (WrongMethod /\ (req.path \in Paths400
                        \/ (req.path = "/localapi/v0/files/" /\ req.suffix = ""))) =>
       (res.w.statusLines = <<StatusBadRequest>> /\ BackendUntouched)
  /\ (PastGates /\ req.path = "/localapi/v0/files/" /\ req.suffix # ""
        /\ PathUnescapeOK(req.suffix) /\ req.method # "DELETE") =>
       res.calls = <<"OpenFile">>

C16_Witness ==
  /\ WrongMethod /\ req.path = "/localapi/v0/logout" /\ req.method = "GET"
  /\ res.w.statusLines = <<StatusBadRequest>> /\ res.calls = <<>>

\* C17: every reply of ServeHTTP carries the Tailscale-Version header: the
\* replies of the handlers, the password failures, the 404 of an unknown
\* path, the capability 403s and the reply of a Handler without a backend.
C17_VersionHeader == Served => res.w.sent.version

\* the backend methods of the handlers that return an error, and the last
\* call of the request having returned one
FallibleCalls ==
  {"DebugRebind", "DebugReSTUN", "SetExpirySooner", "LogoutSync", "WaitingFiles",
   "DeleteFile", "OpenFile", "FileTargets", "SetDNS", "Ping", "DoNoiseRequest",
   "EditPrefs", "CheckPrefs", "CheckIPForwarding", "UserDial"}

BackendFailed ==
  /\ Served /\ env.berr
  /\ res.calls # <<>> /\ res.calls[Len(res.calls)] \in FallibleCalls

\* C18 as stated: a failed backend call is answered with status 500.
C18_BackendFailure500 ==
  BackendFailed => res.w.statusLines = <<StatusInternalServerError>>

\* the status each handler answers a failure of its backend call with
FailureStatus(call) ==
  IF call \in {"DebugRebind", "DebugReSTUN", "SetExpirySooner", "EditPrefs"}
    THEN StatusBadRequest
  ELSE IF call \in {"CheckPrefs", "CheckIPForwarding"} THEN StatusOK
  ELSE IF call = "UserDial" THEN StatusBadGateway
  ELSE StatusInternalServerError

ErrorTexts == {"backend error", "noise error", "dial failure", "Error", "warning"}

\* C18 amended: a failed backend call is reported to the caller with the
\* error in the body, under status 500 by /logout, /files, /file-targets,
\* /file-put, /set-dns, /ping and /id-token, 400 by /debug,
\* /set-expiry-sooner and PATCH /prefs, 502 by /dial, and 200 (the error in
\* the JSON reply) by /check-prefs and /check-ip-forwarding.
C18_BackendFailureReported ==
  BackendFailed =>
     /\ res.w.statusLines = <<FailureStatus(res.calls[Len(res.calls)])>>
     /\ Len(res.w.body) = 1 /\ res.w.body[1].text \in ErrorTexts
     /\ (res.handler \in {"serveFileTargets", "serveSetDNS", "servePing"})
          => res.w.sent.ctype = "application/json"

C18_Witness ==
  /\ BackendFailed /\ res.calls = <<"Ping">>
  /\ res.w.statusLines = <<StatusInternalServerError>>
  /\ res.w.sent.ctype = "application/json"
  /\ res.w.body = <<[text |-> "backend error", val |-> 0]>>

\* C19: once a handler has returned, nothing it acquired is still open: the
\* dialed connection and the hijacked connection of /dial (also when Hijack
\* or the flush failed), the file reader of /files/<name>, the upstream
\* response body of /id-token; while serveDial waits on the pipe it holds
\* exactly its two connections.
C19_ResourcesReleased ==
  /\ pc \in {"idle", "done"} => (res.open = {} /\ ~conn.req /\ ~conn.out)
  /\ pc = "copying" => (res.open = {"outConn", "reqConn"} /\ conn.req /\ conn.out)

C19_Witness ==
  /\ pc = "done" /\ req.path = "/localapi/v0/files/" /\ req.method = "GET"
  /\ res.calls = <<"OpenFile">> /\ ~env.berr
  /\ res.w.body = <<[text |-> "file", val |-> 1]>>
  /\ res.open = {}

\* the last call was a SetDNS that returned nil, and the same call made
\* again on the host it left, under some choice of failing operations
SetDNSReturnedNil == dlast.op = "SetDNS" /\ dlast.err = "nil"

Again(f) == SetDNS(mgr, dlast.cfg, host, f)

WithoutDynamicUpdate(hs) ==
  [hs EXCEPT !.reg = [k \in DOMAIN @ |-> [@[k] EXCEPT !.DisableDynamicUpdate = NoValue]]]

\* C20 as stated: a second SetDNS(cfg) that returns nil leaves the host as
\* the first SetDNS(cfg) that returned nil left it.
C20_SetDNSIdempotent ==
  SetDNSReturnedNil =>
     \A f \in Faults : Again(f).err = "nil" => Again(f).host = host

\* C20 amended: the second SetDNS(cfg) leaves NameServer, SearchList,
\* EnableMulticast and the NRPT rules as the first left them, and
\* DisableDynamicUpdate too when the first call managed to disable the
\* dynamic updates (it logged no failure of that step).
C20_SetDNSIdempotentButUpdates ==
  SetDNSReturnedNil =>
     \A f \in Faults :
        Again(f).err = "nil" =>
           /\ WithoutDynamicUpdate(Again(f).host) = WithoutDynamicUpdate(host)
           /\ dlast.logs = <<>> => Again(f).host = host

C20_Witness ==
  /\ SetDNSReturnedNil /\ dlast.logs = <<>>
  /\ dlast.cfg.Nameservers # <<>> /\ dlast.cfg.SearchDomains # <<>>
  /\ dlast.before.reg[ipv4RegBase].NameServer = Value("10.0.0.1")
  /\ host.reg[ipv4RegBase].SearchList = Value("ts.net")
  /\ host # dlast.before
  /\ Again(NoFault).err = "nil" /\ Again(NoFault).host = host

\* the clearing call made on the host the last call left: SetDNS(OSConfig{}),
\* which is also what Close runs
Cleared(f) == SetDNS(mgr, EmptyConfig, host, f)

\* C21: after a SetDNS(cfg) that returned nil, a SetDNS({}) (or Close) that
\* returns nil leaves every registry value and the NRPT rules as they were
\* before the first call.
C21_ClearRestores ==
  SetDNSReturnedNil =>
     \A f \in Faults : Cleared(f).err = "nil" => Cleared(f).host = dlast.before

AnyCallReturnedNil == dlast.op \in {"SetDNS", "Close"} /\ dlast.err = "nil"

NameServerPresent(hs) == \E k \in {ipv4RegBase, ipv6RegBase} : hs.reg[k].NameServer # NoValue

SplitRulesPresent(hs) == hs.nrpt # NoValue

\* C22: whenever the last call returned nil, the host does not hold both
\* NRPT split rules and a NameServer value (v4 or v6) on the interface.
C22_ModesExclusive ==
  AnyCallReturnedNil => ~(SplitRulesPresent(host) /\ NameServerPresent(host))

\* a host holding both is switched to primary mode: the rules are gone
C22_Witness ==
  /\ SetDNSReturnedNil
  /\ SplitRulesPresent(dlast.before) /\ NameServerPresent(dlast.before)
  /\ dlast.cfg.MatchDomains = <<>> /\ dlast.cfg.Nameservers # <<>>
  /\ NameServerPresent(host) /\ ~SplitRulesPresent(host)

\* C23: in a SetDNS(cfg) with match domains, every operation on the
\* interface's NameServer values comes before the write of the split rules.
C23_ClearPrimaryThenWriteSplit ==
  (dlast.op = "SetDNS" /\ Len(dlast.cfg.MatchDomains) > 0) =>
     \A i, j \in DOMAIN dlast.trace :
        (dlast.trace[i].op = "nrptWrite" /\ dlast.trace[j].name = "NameServer") => j < i

\* the values of primary and split mode on a host
ModeValues(hs) ==
  [nrpt |-> hs.nrpt,
   NameServer |-> [k \in {ipv4RegBase, ipv6RegBase} |-> hs.reg[k].NameServer],
   SearchList |-> [k \in {ipv4RegBase, ipv6RegBase} |-> hs.reg[k].SearchList]]

TouchesModeValues(t) == t.key = "nrpt" \/ t.name \in {"NameServer", "SearchList"}

\* C24: on a configurator without NRPT database (SupportsSplitDNS false), a
\* SetDNS with match domains returns the error and neither writes split
\* rules nor touches NameServer or SearchList; a SetDNS without match
\* domains does no NRPT operation and returns nil whenever the registry
\* operations of setPrimaryDNS succeed.
C24_NoSplitSupport ==
  (dlast.op = "SetDNS" /\ ~SupportsSplitDNS(mgr)) =>
     IF Len(dlast.cfg.MatchDomains) > 0
       THEN /\ dlast.err = "cannot set per-domain resolvers on Windows 7"
            /\ ModeValues(host) = ModeValues(dlast.before)
            /\ \A i \in DOMAIN dlast.trace : ~TouchesModeValues(dlast.trace[i])
            /\ dlast.bg = 0
       ELSE /\ dlast.err \in {"nil", "registry error"}
            /\ \A i \in DOMAIN dlast.trace : dlast.trace[i].key # "nrpt"
            /\ \A f \in Faults :
                  f.primary = 0 => SetDNS(mgr, dlast.cfg, dlast.before, f).err = "nil"

C24_Witness ==
  /\ dlast.op = "SetDNS" /\ ~SupportsSplitDNS(mgr)
  /\ dlast.cfg.MatchDomains # <<>> /\ dlast.cfg.Nameservers = <<>>
  /\ dlast.cfg.SearchDomains # <<>>
  /\ dlast.err = "cannot set per-domain resolvers on Windows 7"
  /\ dlast.before.reg[ipv4RegBase].NameServer = Value("10.0.0.1")
  /\ host.reg[ipv4RegBase].NameServer = Value("10.0.0.1")
  /\ host.reg[ipv4RegBase].DisableDynamicUpdate = Value(1)

SearchListPresent(hs) == \E k \in {ipv4RegBase, ipv6RegBase} : hs.reg[k].SearchList # NoValue

\* C25: a Close has run SetDNS with the empty config on the host it found
\* and returns its error, the NRPT database is released whatever that error
\* is, and after a Close that returned nil the host holds no NRPT rule, no
\* NameServer and no SearchList.
C25_CloseClears ==
  dlast.op = "Close" =>
     /\ \E f \in Faults :
           LET d == SetDNS(mgr, EmptyConfig, dlast.before, f) IN
             d.err = dlast.err /\ d.host = host /\ d.trace = dlast.trace
     /\ mgr.closed
     /\ dlast.err = "nil" =>
           ~SplitRulesPresent(host) /\ ~NameServerPresent(host) /\ ~SearchListPresent(host)

\* a Close whose SetDNS failed on a host in split mode
C25_Witness ==
  /\ dlast.op = "Close" /\ dlast.err # "nil"
  /\ SupportsSplitDNS(mgr) /\ mgr.closed
  /\ SplitRulesPresent(dlast.before) /\ SplitRulesPresent(host)

\* the host after the calls of goroutines a and b made one after the other
\* on the host the two started on
InOrder(a, b) ==
  SetDNS(mgr, conc.call[b].cfg,
         SetDNS(mgr, conc.call[a].cfg, conc.before, NoFault).host, NoFault).host

\* C26: when two concurrent calls on one configurator have both returned,
\* the host is as one of the two sequential orders of the calls leaves it.
C26_Serialized ==
  (\A gr \in Goroutines : conc.call[gr].st = "returned") =>
     host \in {InOrder(1, 2), InOrder(2, 1)}

\* the configs Set compiled from the policy it was given
Compiled == compileConfig(lastSet.in, fakeSupportsSplitDNS(fake), fakeGetBaseConfig(fake))

SplitMode(ocfg) == Len(ocfg.MatchDomains) > 0

\* C27: when the OSConfigurator reports no split support, the OS config
\* compiled from any policy and base config and handed to SetDNS has no
\* match domains.
C27_SplitOnlyWhenCapable ==
  lastSet.done =>
     /\ ~fake.panicked /\ fake.OSConfig = Compiled.ocfg
     /\ SplitMode(Compiled.ocfg) => fake.SplitDNS

\* routes and MagicDNS on an OS that cannot split
C27_Witness ==
  /\ lastSet.done /\ ~fake.SplitDNS
  /\ lastSet.in.Routes = CorpAndMagic
  /\ fake.OSConfig.Nameservers = <<magicIP>> /\ ~SplitMode(fake.OSConfig)

SeqToSet(q) == { q[i] : i \in DOMAIN q }

\* C28: when the compiled OS config is in split mode, every suffix the
\* resolver config routes to upstreams is one of the OS config's match
\* domains, and every suffix the policy maps to no upstream is one of the
\* resolver config's local domains.
C28_SplitCoversRoutes ==
  (lastSet.done /\ SplitMode(fake.OSConfig)) =>
     /\ \A s \in DOMAIN fake.ResolverConfig.Routes :
           Len(fake.ResolverConfig.Routes[s]) > 0 => s \in SeqToSet(fake.OSConfig.MatchDomains)
     /\ \A s \in DOMAIN lastSet.in.Routes :
           Len(lastSet.in.Routes[s]) = 0 => s \in fake.ResolverConfig.LocalDomains

\* routes-magic-split
C28_Witness ==
  /\ lastSet.done /\ lastSet.in.Routes = CorpAndMagic
  /\ fake.OSConfig.MatchDomains = <<"corp.com.", "ts.com.">>
  /\ fake.ResolverConfig.Routes = ("corp.com." :> <<"2.2.2.2">>)
  /\ fake.ResolverConfig.LocalDomains = {"ts.com."}

PrimaryModeSet == lastSet.done /\ ~SplitMode(fake.OSConfig)

AnyIntercepted(c) == \E s \in DOMAIN c.Routes : c.Routes[s] = <<>>

\* C29 as stated: a primary-mode OS config has the nameservers [magicIP]
\* if the policy intercepts a suffix or has default resolvers, and the base
\* config's nameservers otherwise.
C29_PrimaryNameservers ==
  PrimaryModeSet =>
     IF AnyIntercepted(lastSet.in) \/ lastSet.in.DefaultResolvers # <<>>
       THEN fake.OSConfig.Nameservers = <<magicIP>>
       ELSE fake.OSConfig.Nameservers = fake.BaseConfig.Nameservers

\* C29 amended: a primary-mode OS config has no nameservers if the policy
\* has neither default resolvers nor routes, the default resolvers if it
\* has no routes and its default resolvers are all plain IPs, and
\* [magicIP] otherwise; the base config's nameservers are not written to
\* the OS but become the resolver's default route when the policy has
\* routes and no default resolvers.
C29_PrimaryNameserversByPolicy ==
  PrimaryModeSet =>
     LET c == lastSet.in
         noRoutes == DOMAIN c.Routes = {}
         plainIPs == \A i \in DOMAIN c.DefaultResolvers : c.DefaultResolvers[i] # DoHResolver
     IN /\ fake.OSConfig.Nameservers =
             IF noRoutes /\ c.DefaultResolvers = <<>> THEN <<>>
             ELSE IF noRoutes /\ plainIPs THEN c.DefaultResolvers
             ELSE <<magicIP>>
        /\ (~noRoutes /\ c.DefaultResolvers = <<>>) =>
              fake.ResolverConfig.Routes["."] = fake.BaseConfig.Nameservers

\* corp: plain default resolvers and search domains
C29_Witness ==
  /\ PrimaryModeSet
  /\ lastSet.in = [EmptyPolicy EXCEPT !.DefaultResolvers = <<"1.1.1.1", "9.9.9.9">>,
                                      !.SearchDomains = TailscaleSearch]
  /\ fake.OSConfig.Nameservers = <<"1.1.1.1", "9.9.9.9">>
  /\ fake.BaseConfig = CoffeeShop

\* (a): no routes, no hosts, default resolvers that are all plain IPs
OnlyPlainDefaults(c) ==
  /\ DOMAIN c.Routes = {} /\ DOMAIN c.Hosts = {}
  /\ c.DefaultResolvers # <<>>
  /\ \A i \in DOMAIN c.DefaultResolvers : c.DefaultResolvers[i] # DoHResolver

\* (b): no default resolvers and exactly one route, which has upstreams
OneForwardedRoute(c) ==
  /\ c.DefaultResolvers = <<>>
  /\ \E s \in DOMAIN c.Routes : DOMAIN c.Routes = {s} /\ c.Routes[s] # <<>>

\* C30: (a) a policy of plain-IP default resolvers and search domains only
\* yields the default resolvers, in their order, as OS nameservers, no
\* match domains and an empty resolver config, with and without split
\* support; (b) with split support, a policy with no default resolvers and
\* one forwarded route yields that route's upstreams as OS nameservers and
\* its suffix as the only match domain, and a resolver config with no
\* route and no local domain (empty when the policy has no hosts).  The
\* rows of the test's table are produced as well.
C30_DirectUpstreams ==
  /\ TestManager
  /\ (lastSet.done /\ OnlyPlainDefaults(lastSet.in)) =>
        /\ fake.OSConfig.Nameservers = lastSet.in.DefaultResolvers
        /\ fake.OSConfig.SearchDomains = lastSet.in.SearchDomains
        /\ fake.OSConfig.MatchDomains = <<>>
        /\ fake.ResolverConfig = EmptyResolverConfig
  /\ (lastSet.done /\ fake.SplitDNS /\ OneForwardedRoute(lastSet.in)) =>
        LET s == CHOOSE s \in DOMAIN lastSet.in.Routes : TRUE IN
          /\ fake.OSConfig.Nameservers = lastSet.in.Routes[s]
          /\ fake.OSConfig.MatchDomains = <<s>>
          /\ fake.ResolverConfig.Routes = EmptyMap
          /\ fake.ResolverConfig.LocalDomains = {}
          /\ DOMAIN lastSet.in.Hosts = {} => fake.ResolverConfig = EmptyResolverConfig

\* routes-split
C30_Witness ==
  /\ lastSet.done /\ fake.SplitDNS
  /\ lastSet.in = [EmptyPolicy EXCEPT !.Routes = ("corp.com." :> <<"2.2.2.2">>),
                                      !.SearchDomains = TailscaleSearch]
  /\ fake.OSConfig = [Nameservers |-> <<"2.2.2.2">>, SearchDomains |-> TailscaleSearch,
                      MatchDomains |-> <<"corp.com.">>]
  /\ fake.ResolverConfig = EmptyResolverConfig

\* Set was given a policy with no default resolvers and no routes
TeardownSet ==
  lastSet.done /\ lastSet.in.DefaultResolvers = <<>> /\ DOMAIN lastSet.in.Routes = {}

\* C31 as stated: a policy with no default resolvers and no routes compiles
\* to an empty OS config and an empty resolver config, whatever its search
\* domains and hosts.
C31_TeardownEmpty ==
  TeardownSet => (fake.OSConfig = EmptyConfig /\ fake.ResolverConfig = EmptyResolverConfig)

\* C31 amended: such a policy compiles to an OS config with no nameservers
\* and no match domains that carries the policy's search domains, and to a
\* resolver config with no routes and no local domains that carries the
\* policy's hosts; both are empty when the policy has neither.
C31_TeardownKeepsSearchAndHosts ==
  TeardownSet =>
     /\ fake.OSConfig = [EmptyConfig EXCEPT !.SearchDomains = lastSet.in.SearchDomains]
     /\ fake.ResolverConfig = [EmptyResolverConfig EXCEPT !.Hosts = lastSet.in.Hosts]

\* search domains and hosts, nothing else
C31_Witness ==
  /\ TeardownSet
  /\ lastSet.in.SearchDomains = TailscaleSearch /\ lastSet.in.Hosts = DaveAndBrad
  /\ fake.OSConfig.SearchDomains = TailscaleSearch /\ fake.OSConfig.Nameservers = <<>>
  /\ fake.ResolverConfig.Hosts = DaveAndBrad
  /\ fake.BaseConfig = CoffeeShop

\* Set was given routes and no default resolvers on a host that cannot split
RoutesOnlyNoSplitSet ==
  /\ lastSet.done /\ ~fake.SplitDNS
  /\ lastSet.in.DefaultResolvers = <<>> /\ DOMAIN lastSet.in.Routes # {}

\* C32: on a host that cannot split, a policy with routes and no default
\* resolvers gives OS nameservers [100.100.100.100]; OS search domains that
\* are the policy's followed by the base config's, each domain once and in
\* that order; resolver routes that are the forwarded routes plus a "."
\* route to the base config's nameservers; and local domains that are the
\* intercepted suffixes.
C32_NoSplitRoutesOnly ==
  RoutesOnlyNoSplitSet =>
    LET sd   == fake.OSConfig.SearchDomains
        own  == lastSet.in.SearchDomains
        base == fake.BaseConfig.SearchDomains
        rt   == lastSet.in.Routes
    IN /\ fake.OSConfig.Nameservers = <<magicIP>>
       /\ fake.OSConfig.MatchDomains = <<>>
       /\ Len(sd) >= Len(own)
       /\ \A i \in DOMAIN own : sd[i] = own[i]
       /\ \A i, j \in DOMAIN sd : sd[i] = sd[j] => i = j
       /\ [i \in 1..(Len(sd) - Len(own)) |-> sd[Len(own) + i]]
            = SelectSeq(base, LAMBDA s : s \notin SeqToSet(own))
       /\ DOMAIN fake.ResolverConfig.Routes
            = {"."} \cup { s \in DOMAIN rt : rt[s] # <<>> }
       /\ fake.ResolverConfig.Routes["."] = fake.BaseConfig.Nameservers
       /\ \A s \in DOMAIN rt : rt[s] # <<>> => fake.ResolverConfig.Routes[s] = rt[s]
       /\ fake.ResolverConfig.LocalDomains = { s \in DOMAIN rt : rt[s] = <<>> }

\* one forwarded and one intercepted suffix, and a base config whose first
\* search domain the policy already has
C32_Witness ==
  /\ RoutesOnlyNoSplitSet
  /\ lastSet.in.Routes = CorpAndMagic
  /\ lastSet.in.SearchDomains = TailscaleSearch
  /\ fake.BaseConfig.SearchDomains = <<"universe.tf.", "coffee.shop.">>
  /\ fake.OSConfig.SearchDomains = <<"tailscale.com.", "universe.tf.", "coffee.shop.">>
  /\ fake.ResolverConfig.Routes = ("." :> <<"8.8.8.8">>) @@ ("corp.com." :> <<"2.2.2.2">>)
  /\ fake.ResolverConfig.LocalDomains = {"ts.com."}

\* Set was given, on a host that can split, no default resolvers and an
\* intercepted suffix or two or more forwarded routes
SplitThroughDaemonSet ==
  /\ lastSet.done /\ fake.SplitDNS
  /\ lastSet.in.DefaultResolvers = <<>>
  /\ \/ AnyIntercepted(lastSet.in)
     \/ Cardinality({ s \in DOMAIN lastSet.in.Routes : lastSet.in.Routes[s] # <<>> }) >= 2

C34_HostsReachResolver ==
  (lastSet.done /\ DOMAIN lastSet.in.Hosts # {}) =>
     /\ fake.ResolverConfig.Hosts = lastSet.in.Hosts
     /\ lastSet.in = [EmptyPolicy EXCEPT !.Hosts = lastSet.in.Hosts] =>
          /\ fake.OSConfig = EmptyConfig
          /\ fake.ResolverConfig = [EmptyResolverConfig EXCEPT !.Hosts = lastSet.in.Hosts]

\* exit-node-forward: hosts next to a default resolver that is not a plain IP
C34_Witness ==
  /\ lastSet.done
  /\ lastSet.in.Hosts = DaveAndBrad
  /\ lastSet.in.DefaultResolvers = <<DoHResolver>>
  /\ fake.OSConfig.Nameservers = <<magicIP>>
  /\ fake.ResolverConfig.Hosts = DaveAndBrad
  /\ fake.ResolverConfig.Routes = ("." :> <<DoHResolver>>)

\* WaitFor has returned
WaitForReturned == wf.pc = "returned"

\* C35: WaitFor returns nil exactly when a call to try returned nil, and
\* that call was then the last one made; otherwise it returns the error of
\* the last call to try.
C35_WaitFor ==
  WaitForReturned =>
    LET n == Len(wf.tries)
        succeeded == \E i \in 1..n : wf.tries[i] = "nil"
    IN /\ (wf.ret = "nil") <=> succeeded
       /\ succeeded => (wf.tries[n] = "nil" /\ \A i \in 1..(n - 1) : wf.tries[i] # "nil")
       /\ ~succeeded => (n > 0 /\ wf.ret = wf.tries[n])

\* the goroutines started by call number c of SetDNS
TasksOf(c) == { i \in DOMAIN tk.tasks : tk.tasks[i].call = c }

\* what a goroutine has run is the start of: registerdns, then flushdns
RanInOrder(t) ==
  /\ Len(t.ran) <= 2
  /\ Len(t.ran) >= 1 => t.ran[1].cmd = "registerdns"
  /\ Len(t.ran) = 2 => t.ran[2].cmd = "flushdns"
  /\ t.pc = (IF Len(t.ran) = 0 THEN "registerdns"
             ELSE IF Len(t.ran) = 1 THEN "flushdns" ELSE "done")

\* C36: every SetDNS that returns nil starts exactly one goroutine (and one
\* that returns an error starts none); SetDNS returns before the goroutine
\* has run anything; the goroutine runs ipconfig /registerdns and then,
\* whether or not that failed, ipconfig /flushdns; and nothing the
\* goroutine does changes what SetDNS returned.
C36_AsyncIpconfig ==
  [][ /\ \A c \in DOMAIN tk.rets' :
           Cardinality(TasksOf(c)') = (IF tk.rets'[c] = "nil" THEN 1 ELSE 0)
      /\ \A i \in DOMAIN tk.tasks' : RanInOrder(tk.tasks[i])'
      /\ Len(tk.rets') > Len(tk.rets) =>
           \A i \in DOMAIN tk.tasks' :
              tk.tasks'[i].call = Len(tk.rets') => tk.tasks'[i].ran = <<>>
      /\ tk.tasks' # tk.tasks /\ Len(tk.rets') = Len(tk.rets) =>
           (tk.rets' = tk.rets /\ dlast' = dlast /\ host' = host)
    ]_vars

\* SetDNS returned nil; its goroutine has run registerdns, which failed,
\* and flushdns after it
C36_Witness ==
  /\ dlast.op = "SetDNS" /\ dlast.err = "nil"
  /\ tk.rets = <<"nil">>
  /\ Len(tk.tasks) = 1
  /\ tk.tasks[1].ran = <<[cmd |-> "registerdns", ok |-> FALSE], [cmd |-> "flushdns", ok |-> TRUE]>>

\* C37: a POST /ping whose ip parameter parses and whose type parameter is
\* empty is answered 400 "missing 'type' parameter", and Ping is not called.
C37_PingTypeRequired ==
  (/\ Served /\ res.handler = "servePing"
   /\ req.method = "POST" /\ ParseAddrOK(req.form.ip) /\ req.form.type = "") =>
     /\ res.w.statusLines = <<StatusBadRequest>>
     /\ Len(res.w.body) = 1 /\ res.w.body[1].text = "missing 'type' parameter"
     /\ res.calls = <<>>

\* no goroutine is inside serveUploadClientMetrics
UploadsQuiet == \A gr \in Uploaders : upl.g[gr].pc \in {"idle", "lock", "done"}

\* C38: however the goroutines of concurrent /upload-client-metrics
\* requests interleave, NewCounter / NewGauge is called at most once per
\* name, and the value of every uploaded metric is the sum of the values of
\* the entries applied to that name.
C38_UploadsSerialized ==
  /\ \A n \in MetricNames : upl.created[n] <= 1
  /\ UploadsQuiet =>
       \A n \in MetricNames :
          /\ metrics[n].reg = "upload" <=> upl.created[n] = 1
          /\ metrics[n].reg = "upload" => metrics[n].value = upl.added[n]
          /\ metrics[n].reg # "upload" => upl.added[n] = 0

\* both requests have uploaded a counter "a"; one created it, both added
C38_Witness ==
  /\ \A gr \in Uploaders :
        /\ upl.g[gr].pc = "done" /\ upl.g[gr].status = StatusOK
        /\ upl.g[gr].body = <<[name |-> "a", type |-> "counter", value |-> 1]>>
  /\ upl.created["a"] = 1
  /\ metrics["a"].value = 2

\* the writes of a call other than those of disableDynamicUpdates
ModeWrites(trace) ==
  SelectSeq(trace, LAMBDA t : Mutating(t) /\ t.name # "DisableDynamicUpdate")

\* C39: the writes SetDNS makes after disableDynamicUpdates are the start
\* of the writes of the same call without a failure, in the same order: it
\* stops at the first of them that fails.  A failure of
\* disableDynamicUpdates is logged and changes nothing in what follows; a
\* failure of setSplitDNS or setPrimaryDNS is returned, and then no later
\* write is made and no goroutine is started; when nothing but
\* disableDynamicUpdates failed every write is made, nil is returned and
\* the goroutine is started.
C39_StopsAtFirstFailure ==
  dlast.op # "" =>
    LET all  == SetDNS(mgr, dlast.cfg, dlast.before, NoFault)
        done == ModeWrites(dlast.trace)
        full == ModeWrites(all.trace)
    IN /\ IsPrefix(done, full)
       /\ dlast.logs \in {<<>>, <<"disableDynamicUpdates error">>}
       /\ dlast.err = "nil" => (done = full /\ dlast.bg = 1)
       /\ dlast.err # "nil" =>
            /\ dlast.bg = 0
            /\ all.err = "nil" => (done # full /\ dlast.err \in {"nrpt error", "registry error"})
            /\ all.err # "nil" => (dlast.err = all.err /\ done = <<>>)

\* the split rules were written, then setPrimaryDNS failed after deleting
\* the IPv4 NameServer
C39_Witness ==
  /\ dlast.op = "SetDNS" /\ dlast.err = "registry error" /\ dlast.bg = 0
  /\ Len(ModeWrites(dlast.trace)) = 2
  /\ ModeWrites(dlast.trace)[1].op = "nrptWrite"
  /\ ModeWrites(dlast.trace)[2] = DeleteValue(ipv4RegBase, "NameServer")

\* the resolvers of interface l that are not IPv6 site-local addresses
UsableResolvers(l) ==
  SelectSeq([i \in DOMAIN bp.in.dns[l] |-> Unmap(bp.in.dns[l][i])],
            LAMBDA ip : ip \notin {"fec0:0:0:ffff::1", "fec0:0:0:ffff::2", "fec0:0:0:ffff::3"})

\* the connected interfaces other than Tailscale's
ConnectedOthers == { r \in bp.in.ifrows : r.Connected /\ r.InterfaceLUID \in OtherLUIDs }

\* every lookup the call makes succeeds
BaseLookupsOK ==
  /\ bp.in.guidOK
  /\ bp.in.v4 = "ok" \/ (bp.in.v4 = "ERROR_NOT_FOUND" /\ bp.in.v6 = "ok")
  /\ bp.in.dnsFails = {}

\* C40: what getBasePrimaryResolver returns is, when it is not empty, the
\* resolvers that are not site-local of one connected interface other than
\* Tailscale's, and no connected interface other than Tailscale's with a
\* smaller metric has such a resolver; the result holds no site-local
\* resolver and none of the Tailscale interface; when every lookup succeeds
\* it is empty, with no error, exactly when no connected interface other
\* than Tailscale's has such a resolver.
C40_BasePrimaryResolver ==
  bp.done =>
    LET rs == bp.out.resolvers IN
      /\ bp.out.err # "nil" => rs = <<>>
      /\ rs # <<>> =>
           \E c \in ConnectedOthers :
              /\ rs = UsableResolvers(c.InterfaceLUID)
              /\ \A d \in ConnectedOthers :
                    d.Metric < c.Metric => UsableResolvers(d.InterfaceLUID) = <<>>
      /\ \A i \in DOMAIN rs :
            /\ rs[i] \notin {"fec0:0:0:ffff::1", "fec0:0:0:ffff::2", "fec0:0:0:ffff::3"}
            /\ \A j \in DOMAIN bp.in.dns[tsLUID] : rs[i] # bp.in.dns[tsLUID][j]
      /\ BaseLookupsOK =>
           /\ bp.out.err = "nil"
           /\ rs = <<>> <=> \A c \in ConnectedOthers : UsableResolvers(c.InterfaceLUID) = <<>>

\* Tailscale's interface has the smallest metric, the next interface has
\* site-local resolvers only, the last one has the resolver returned
C40_Witness ==
  /\ bp.done /\ BaseLookupsOK
  /\ bp.in.ifrows = { [InterfaceLUID |-> tsLUID, Connected |-> TRUE, Metric |-> 1],
                      [InterfaceLUID |-> "eth", Connected |-> TRUE, Metric |-> 1],
                      [InterfaceLUID |-> "wifi", Connected |-> TRUE, Metric |-> 2] }
  /\ bp.in.dns["eth"] = <<"fec0:0:0:ffff::1", "fec0:0:0:ffff::2">>
  /\ bp.in.dns["wifi"] = <<"fec0:0:0:ffff::3", "9.9.9.9", "fec0:0:0:ffff::1">>
  /\ bp.out = [resolvers |-> <<"9.9.9.9">>, err |-> "nil"]

====
